---------------------------- MODULE Spec2Model ----------------------------
(***************************************************************************)
(* Model of siibra's multi-resolution volume access and parcellation map.  *)
(*                                                                         *)
(*   Spec       NeuroglancerVolume: lazy bootstrap of the scale list and   *)
(*              _select_scale (siibra/volumes/neuroglancer.py)             *)
(*   SpecBoot   NeuroglancerVolume: every access that may bootstrap, with  *)
(*              the failures of _bootstrap                                 *)
(*   SpecFetch  NeuroglancerScale.fetch: chunk grid, assembly and crop     *)
(*   SpecMap    Map: construction, get_index, get_region, fetch, maptype,  *)
(*              fetch_iter (siibra/volumes/parcellationmap.py)             *)
(*   SpecData   Map with the images of its volumes: compress, assign,      *)
(*              compute_centroids                                          *)
(*                                                                         *)
(* Lengths are integers in one arbitrary unit (resolutions, physical box   *)
(* extents); byte sizes are exact rationals num/den.                       *)
(***************************************************************************)
EXTENDS Integers, Sequences, FiniteSets, TLC

VARIABLES
    info,           \* the remote "info": scale descriptions in stored order
    itemsize,       \* np.dtype(info["data_type"]).itemsize
    maxBytes,       \* NeuroglancerVolume.MAX_BYTES
    io,             \* NeuroglancerVolume._io is set
    scales_cached,  \* NeuroglancerVolume._scales_cached
    sel,            \* the last call of _select_scale (SpecBoot: the last
                    \* access of the volume) and how it ended
    bootstraps,     \* how often _bootstrap has read the info from the store
    sc,             \* SpecFetch: the scale fetched from
    fres,           \* SpecFetch: the last call of NeuroglancerScale.fetch
    map,            \* SpecMap: the Map object (_indices, volumes)
    call            \* SpecMap: the last call of a Map method and how it ended

volVars == <<info, itemsize, maxBytes, io, scales_cached, sel, bootstraps>>
fetchVars == <<sc, fres>>
mapVars == <<map, call>>
vars == <<info, itemsize, maxBytes, io, scales_cached, sel, bootstraps, sc, fres,
          map, call>>

Idle == [kind |-> "idle"]

(***************************************************************************)
(* Bounds of the model.                                                    *)
(***************************************************************************)
MaxScales == 3

Axes == 1..3

Prod3(t) == t[1] * t[2] * t[3]

(***************************************************************************)
(* NeuroglancerScale: resolution per axis, voxel extent, unique key.       *)
(***************************************************************************)
ResValues == { <<1, 1, 1>>, <<2, 2, 2>>, <<1, 2, 2>> }

SizeValues == { <<1, 1, 1>>, <<2, 2, 2>> }

ScaleInfos == [res : ResValues, size : SizeValues]

\* NeuroglancerScale.__init__: the key identifies the scale object
NeuroglancerScale(scaleinfo, key) ==
    [key |-> key, res |-> scaleinfo.res, size |-> scaleinfo.size]

\* NeuroglancerScale.resolves: some axis is at least as fine as the request
resolves(s, resolution_mm) == \E i \in Axes : s.res[i] <= resolution_mm

\* NeuroglancerScale.__lt__: strictly smaller on all three axes
Lt(a, b) == \A i \in Axes : a.res[i] < b.res[i]

(***************************************************************************)
(* sorted(): CPython's list sort for fewer than 64 elements, which uses    *)
(* only "<": the leading run is found (and reversed when descending), the  *)
(* other elements are inserted by binary search.                           *)
(***************************************************************************)
Reverse(s) == [i \in 1..Len(s) |-> s[Len(s) + 1 - i]]

CountRun(s) ==
    LET descending == Lt(s[2], s[1])
        n == CHOOSE m \in 2..Len(s) :
                /\ \A k \in 3..m : Lt(s[k], s[k - 1]) = descending
                /\ m < Len(s) => Lt(s[m + 1], s[m]) # descending
    IN  [n |-> n, descending |-> descending]

RECURSIVE BinSearch(_, _, _, _)
BinSearch(s, pivot, l, r) ==
    IF l >= r THEN l
    ELSE LET p == l + ((r - l) \div 2)
         IN  IF Lt(pivot, s[p]) THEN BinSearch(s, pivot, l, p)
             ELSE BinSearch(s, pivot, p + 1, r)

RECURSIVE BinarySort(_, _)
BinarySort(s, start) ==
    IF start > Len(s) THEN s
    ELSE LET pivot == s[start]
             l == BinSearch(s, pivot, 1, start)
             moved == [i \in 1..Len(s) |->
                          IF i < l \/ i > start THEN s[i]
                          ELSE IF i = l THEN pivot
                          ELSE s[i - 1]]
         IN  BinarySort(moved, start + 1)

Sorted(s) ==
    IF Len(s) < 2 THEN s
    ELSE LET run == CountRun(s)
             head == SubSeq(s, 1, run.n)
             s1 == (IF run.descending THEN Reverse(head) ELSE head)
                       \o SubSeq(s, run.n + 1, Len(s))
         IN  BinarySort(s1, run.n + 1)

\* NeuroglancerVolume._bootstrap: one scale object per entry, sorted
BootstrapScales(inf) ==
    Sorted([i \in 1..Len(inf) |-> NeuroglancerScale(inf[i], i)])

(***************************************************************************)
(* Requests of _select_scale.                                              *)
(***************************************************************************)
NoResolution == [isNone |-> TRUE, mm |-> 0]

Resolution(mm) == [isNone |-> FALSE, mm |-> mm]

ResolutionRequests == {NoResolution} \cup {Resolution(m) : m \in -1..2}

NoBox == [isNone |-> TRUE, ext |-> <<0, 0, 0>>]

Box(ext) == [isNone |-> FALSE, ext |-> ext]

BoxRequests == {NoBox, Box(<<3, 3, 3>>), Box(<<6, 6, 3>>)}

ItemSizes == {1, 2}

Budgets == {1, 4, 16}

\* NeuroglancerScale._estimate_nbytes as the exact fraction num/den:
\* itemsize x voxel volume of the box at this scale (extent / resolution per
\* axis), or of the whole extent when there is no box
EstimateNbytes(s, bbox, isz) ==
    IF bbox.isNone THEN [num |-> isz * Prod3(s.size), den |-> 1]
    ELSE [num |-> isz * Prod3(bbox.ext), den |-> Prod3(s.res)]

Exceeds(est, budget) == est.num > budget * est.den

\* list.index(self), counted from 1: scale objects compare by identity
IndexOf(scales, s) ==
    CHOOSE i \in 1..Len(scales) :
        /\ scales[i].key = s.key
        /\ \A j \in 1..(i - 1) : scales[j].key # s.key

NoScale == [key |-> 0, res |-> <<0, 0, 0>>, size |-> <<0, 0, 0>>]

\* NeuroglancerScale.next: my_index < len(scales) always holds, so the last
\* scale indexes past the end of the list
next(scales, s) ==
    LET my_index == IndexOf(scales, s) - 1
    IN  IF my_index < Len(scales)
        THEN IF my_index + 1 < Len(scales)
             THEN [raised |-> "no", scale |-> scales[my_index + 2]]
             ELSE [raised |-> "IndexError", scale |-> NoScale]
        ELSE [raised |-> "no", scale |-> NoScale]

\* the candidates of _select_scale, in the order it holds them
Suitable(scales, resolution) ==
    IF resolution.isNone THEN scales
    ELSE IF resolution.mm < 0 THEN <<scales[1]>>
    ELSE Sorted(SelectSeq(scales, LAMBDA s : resolves(s, resolution.mm)))

SuitableFirst(scales, resolution) ==
    LET suitable == Suitable(scales, resolution)
    IN  IF Len(suitable) > 0 THEN suitable[1] ELSE scales[1]

\* the scale chosen before budget enforcement
InitialScale(scales, resolution) ==
    LET suitable == Suitable(scales, resolution)
    IN  IF Len(suitable) > 0 THEN suitable[Len(suitable)] ELSE scales[1]

TooLargeFlipped(s, bbox, isz, budget) ==
    LET est == EstimateNbytes(s, bbox, isz)
    IN  est.num < budget * est.den

\* the loop condition: scale._estimate_nbytes(bbox) > self.MAX_BYTES
TooLarge(s, bbox, isz, budget) == Exceeds(EstimateNbytes(s, bbox, isz), budget)

RECURSIVE EnforceOnce(_, _, _, _, _, _)
EnforceOnce(scales, s, changed, bbox, isz, budget) ==
    IF ~TooLarge(s, bbox, isz, budget) \/ changed
    THEN [outcome |-> "return", scale |-> s, scale_changed |-> changed]
    ELSE LET n == next(scales, s)
         IN  IF n.raised # "no"
             THEN [outcome |-> n.raised, scale |-> NoScale, scale_changed |-> TRUE]
             ELSE IF n.scale = NoScale
             THEN [outcome |-> "RuntimeError", scale |-> NoScale, scale_changed |-> TRUE]
             ELSE EnforceOnce(scales, n.scale, TRUE, bbox, isz, budget)

\* the budget loop of _select_scale
RECURSIVE Enforce(_, _, _, _, _, _)
Enforce(scales, s, changed, bbox, isz, budget) ==
    IF ~TooLarge(s, bbox, isz, budget)
    THEN [outcome |-> "return", scale |-> s, scale_changed |-> changed]
    ELSE LET n == next(scales, s)
         IN  IF n.raised # "no"
             THEN [outcome |-> n.raised, scale |-> NoScale, scale_changed |-> TRUE]
             ELSE IF n.scale = NoScale
             THEN [outcome |-> "RuntimeError", scale |-> NoScale, scale_changed |-> TRUE]
             ELSE Enforce(scales, n.scale, TRUE, bbox, isz, budget)

\* NeuroglancerVolume._select_scale: how the call ends, the scale returned,
\* the scale chosen before budget enforcement and the warnings emitted
_select_scale(scales, resolution, bbox, isz, budget) ==
    LET initial == InitialScale(scales, resolution)
        r == Enforce(scales, initial, FALSE, bbox, isz, budget)
    IN  [kind |-> "select",
         resolution |-> resolution,
         bbox |-> bbox,
         initial |-> initial,
         suitable |-> Suitable(scales, resolution),
         outcome |-> r.outcome,
         scale |-> r.scale,
         warnFallback |-> Len(Suitable(scales, resolution)) = 0,
         warnReduced |-> r.outcome = "return" /\ r.scale_changed]

(***************************************************************************)
(* NeuroglancerVolume: state after __init__ and its operations.            *)
(***************************************************************************)
Unset == [set |-> FALSE, list |-> <<>>]

InfoLists == UNION {[1..n -> ScaleInfos] : n \in 1..MaxScales}

InitVolume ==
    /\ info \in InfoLists
    /\ itemsize \in ItemSizes
    /\ maxBytes \in Budgets
    /\ io = FALSE
    /\ scales_cached = Unset
    /\ sel = Idle
    /\ bootstraps = 0

\* _bootstrap: sets _io, then _scales_cached
Bootstrapped == [set |-> TRUE, list |-> BootstrapScales(info)]

\* property scales
AccessScales ==
    /\ scales_cached.set = FALSE
    /\ io' = TRUE
    /\ scales_cached' = Bootstrapped
    /\ bootstraps' = bootstraps + 1
    /\ UNCHANGED <<info, itemsize, maxBytes, sel>>

\* properties dtype and map_type
AccessDtype ==
    /\ io = FALSE
    /\ io' = TRUE
    /\ scales_cached' = Bootstrapped
    /\ bootstraps' = bootstraps + 1
    /\ UNCHANGED <<info, itemsize, maxBytes, sel>>

\* _select_scale(resolution_mm, bbox), reading self.scales first
SelectScale ==
    \E resolution \in ResolutionRequests, bbox \in BoxRequests :
        LET cached == IF scales_cached.set THEN scales_cached ELSE Bootstrapped
        IN  /\ io' = TRUE
            /\ scales_cached' = cached
            /\ sel' = _select_scale(cached.list, resolution, bbox, itemsize, maxBytes)
            /\ bootstraps' = IF scales_cached.set THEN bootstraps ELSE bootstraps + 1
            /\ UNCHANGED <<info, itemsize, maxBytes>>

NextVolume ==
    \/ AccessScales /\ UNCHANGED <<fetchVars, mapVars>>
    \/ AccessDtype /\ UNCHANGED <<fetchVars, mapVars>>
    \/ SelectScale /\ UNCHANGED <<fetchVars, mapVars>>

(***************************************************************************)
(* Claims about _select_scale.                                             *)
(***************************************************************************)
IsSelect == sel.kind = "select"

Returned == IsSelect /\ sel.outcome = "return"

ScaleList == scales_cached.list

\* C1: whenever _select_scale returns a scale, the estimated fetch size of
\* that scale (for the box of the call, or the whole extent without a box)
\* is at most MAX_BYTES
C1_ReturnedScaleFitsBudget ==
    Returned =>
        ~Exceeds(EstimateNbytes(sel.scale, sel.bbox, itemsize), maxBytes)

\* a call with a non-negative resolution and a box that moved over two
\* scales to a coarser one before returning
C1_Witness ==
    /\ Returned
    /\ ~sel.resolution.isNone /\ sel.resolution.mm >= 0
    /\ ~sel.bbox.isNone
    /\ sel.warnReduced
    /\ IndexOf(ScaleList, sel.scale) >= IndexOf(ScaleList, sel.initial) + 2

\* every scale from the initially chosen one to the end of the list is
\* above the budget
AllTooLargeFromInitial ==
    \A i \in IndexOf(ScaleList, sel.initial)..Len(ScaleList) :
        TooLarge(ScaleList[i], sel.bbox, itemsize, maxBytes)

\* C2: when every scale from the initially chosen one up to the coarsest is
\* above the budget, _select_scale ends with the infeasibility RuntimeError
C2_ExhaustedRaisesRuntimeError ==
    (IsSelect /\ AllTooLargeFromInitial) => sel.outcome = "RuntimeError"

\* C3: with the scale list, resolution and box fixed, a budget B2 below the
\* budget B1 of a returning call never returns a scale placed before the one
\* returned under B1
C3_SmallerBudgetNeverFiner ==
    Returned =>
        \A B2 \in 0..maxBytes :
            LET r2 == _select_scale(ScaleList, sel.resolution, sel.bbox, itemsize, B2)
            IN  r2.outcome = "return" =>
                    IndexOf(ScaleList, r2.scale) >= IndexOf(ScaleList, sel.scale)

\* a smaller budget under which the call returns a strictly later scale
C3_Witness ==
    /\ Returned
    /\ \E B2 \in 0..maxBytes :
           LET r2 == _select_scale(ScaleList, sel.resolution, sel.bbox, itemsize, B2)
           IN  /\ r2.outcome = "return"
               /\ IndexOf(ScaleList, r2.scale) > IndexOf(ScaleList, sel.scale)

Candidates ==
    {ScaleList[i] : i \in {j \in 1..Len(ScaleList) :
                               resolves(ScaleList[j], sel.resolution.mm)}}

AllScales == {ScaleList[i] : i \in 1..Len(ScaleList)}

\* C4: for a non-negative resolution the scale chosen before budget
\* enforcement is a candidate that no other candidate is coarser than; when
\* no scale resolves the request it is a scale that no scale of the volume
\* is finer than, and the degraded-resolution warning is emitted
C4_InitialIsCoarsestCandidate ==
    (IsSelect /\ ~sel.resolution.isNone /\ sel.resolution.mm >= 0) =>
        IF Candidates # {}
        THEN /\ sel.initial \in Candidates
             /\ \A c \in Candidates : ~Lt(sel.initial, c)
             /\ ~sel.warnFallback
        ELSE /\ \A c \in AllScales : ~Lt(c, sel.initial)
             /\ sel.warnFallback

\* the scales that are at least as fine as the request on every axis
FineOnEveryAxis ==
    {s \in AllScales : \A i \in Axes : s.res[i] <= sel.resolution.mm}

\* C23: for a non-negative requested resolution R the candidate set built by
\* _select_scale is exactly the set of scales whose resolution is <= R on
\* every one of the three axes
C23_CandidatesFineOnEveryAxis ==
    (IsSelect /\ ~sel.resolution.isNone /\ sel.resolution.mm >= 0) =>
        {sel.suitable[i] : i \in 1..Len(sel.suitable)} = FineOnEveryAxis

\* C24: after bootstrap, of any two scales of the volume with different
\* resolutions exactly one is less than the other under __lt__, and no scale
\* of the list is coarser than a scale that follows it
C24_ScalesTotallyOrdered ==
    scales_cached.set =>
        /\ \A i, j \in 1..Len(ScaleList) :
               ScaleList[i].res # ScaleList[j].res =>
                   (Lt(ScaleList[i], ScaleList[j]) <=> ~Lt(ScaleList[j], ScaleList[i]))
        /\ \A i, j \in 1..Len(ScaleList) :
               i < j => ~Lt(ScaleList[j], ScaleList[i])

\* a two-scale volume, S0 finer than S1, asked without a resolution under a
\* budget that S1 satisfies and S0 does not
C5_Case ==
    /\ IsSelect
    /\ sel.resolution.isNone
    /\ Len(ScaleList) = 2
    /\ Lt(ScaleList[1], ScaleList[2])
    /\ TooLarge(ScaleList[1], sel.bbox, itemsize, maxBytes)
    /\ ~TooLarge(ScaleList[2], sel.bbox, itemsize, maxBytes)

\* C5 as stated: in that case _select_scale returns S1 and emits the
\* reduced-resolution warning
C5_DegradesWithWarning ==
    C5_Case =>
        /\ sel.outcome = "return"
        /\ sel.scale = ScaleList[2]
        /\ sel.warnReduced

\* C5 amended: in that case _select_scale returns S1, which it chose from the
\* start, and emits no reduced-resolution warning
C5_ReturnsCoarsestWithoutWarning ==
    C5_Case =>
        /\ sel.outcome = "return"
        /\ sel.scale = ScaleList[2]
        /\ sel.initial = ScaleList[2]
        /\ ~sel.warnReduced

C5_Witness == C5_Case /\ sel.outcome = "return" /\ ~sel.bbox.isNone

(***************************************************************************)
(* NeuroglancerScale.fetch.  A position along axis a is kept as the        *)
(* integer p standing for the voxel coordinate p / res[a], so a box that   *)
(* does not fall on voxel borders is exact.  Arrays are indexed from 0 in  *)
(* the order (z, y, x) of the chunk store.                                 *)
(***************************************************************************)
MaxSize == 4

Min2(a, b) == IF a < b THEN a ELSE b

Max2(a, b) == IF a > b THEN a ELSE b

\* np.floor(a / b) for b > 0
Floor(a, b) == a \div b

\* np.ceil(a / b) for b > 0
Ceil(a, b) == -((-a) \div b)

\* (a / b).astype("int") for b > 0: towards zero
Trunc(a, b) == IF a >= 0 THEN a \div b ELSE -((-a) \div b)

FetchScales ==
    { [chunk_sizes |-> <<2, 2, 2>>, voxel_offset |-> <<0, 0, 0>>,
       size |-> <<MaxSize, 3, 2>>, res |-> <<1, 1, 1>>],
      [chunk_sizes |-> <<3, 2, 1>>, voxel_offset |-> <<0, 0, 0>>,
       size |-> <<MaxSize, 3, 2>>, res |-> <<2, 1, 1>>],
      [chunk_sizes |-> <<2, 2, 2>>, voxel_offset |-> <<2, 0, 0>>,
       size |-> <<MaxSize, 3, 2>>, res |-> <<1, 1, 1>>],
      [chunk_sizes |-> <<2, 3, 2>>, voxel_offset |-> <<0, 1, 0>>,
       size |-> <<MaxSize, 3, 2>>, res |-> <<1, 1, 1>>],
      [chunk_sizes |-> <<2, 2, 2>>, voxel_offset |-> <<0, 0, 0>>,
       size |-> <<MaxSize, 3, 2>>, res |-> <<2, 1, 1>>] }

NoVoi == [isNone |-> TRUE, minp |-> <<0, 0, 0>>, maxp |-> <<0, 0, 0>>]

\* the positions a box corner may take: the voxel range the scale covers
Corners(s) ==
    (0..(s.voxel_offset[1] + s.size[1]) * s.res[1])
        \X (0..(s.voxel_offset[2] + s.size[2]) * s.res[2])
        \X (0..(s.voxel_offset[3] + s.size[3]) * s.res[3])

\* the boxes asked for, extent 0 on an axis included
Vois(s) ==
    {[isNone |-> FALSE, minp |-> c[1], maxp |-> c[2]] :
        c \in {d \in Corners(s) \X Corners(s) : \A a \in Axes : d[1][a] <= d[2][a]}}

\* the value stored at a voxel: different at every voxel, never 0
Voxel(v) == 1 + v[1] + 16 * v[2] + 256 * v[3]

\* the box in the voxel space of the scale: the whole extent without a voi
BoxVoxel(s, voi) ==
    IF voi.isNone
    THEN [minp |-> <<0, 0, 0>>, maxp |-> [a \in Axes |-> s.size[a] * s.res[a]]]
    ELSE [minp |-> voi.minp, maxp |-> voi.maxp]

\* axes of extent < 1 voxel
ThinAxes(s, b) == {a \in Axes : b.maxp[a] - b.minp[a] < s.res[a]}

\* bbox_.maxpoint[dim] + 1 on every axis of extent < 1 voxel
Enlarge(s, b) ==
    [minp |-> b.minp,
     maxp |-> [a \in Axes |-> IF a \in ThinAxes(s, b)
                              THEN b.maxp[a] + s.res[a] ELSE b.maxp[a]]]

_point_to_lower_chunk_idx(s, p) ==
    [a \in Axes |->
        Floor(p[a] - s.voxel_offset[a] * s.res[a], s.chunk_sizes[a] * s.res[a])]

_point_to_upper_chunk_idx(s, p) ==
    [a \in Axes |->
        Ceil(p[a] - s.voxel_offset[a] * s.res[a], s.chunk_sizes[a] * s.res[a])]

\* the voxel range _read_chunk asks the store for
ChunkLo(s, g) == [a \in Axes |-> g[a] * s.chunk_sizes[a]]

ChunkHi(s, g) ==
    [a \in Axes |-> Min2(s.chunk_sizes[a] + ChunkLo(s, g)[a], s.size[a])]

\* the chunks the store holds: a grid from voxel_offset, cut at the end
ChunkStored(s, lo, hi) ==
    \A a \in Axes :
        \E k \in 0..((s.size[a] - 1) \div s.chunk_sizes[a]) :
            /\ lo[a] = s.voxel_offset[a] + k * s.chunk_sizes[a]
            /\ hi[a] = Min2(lo[a] + s.chunk_sizes[a], s.voxel_offset[a] + s.size[a])

\* the buffer position (x, y, z) after all chunks are copied: the voxel of
\* the chunk it falls in, or the 0 of np.zeros beyond a cut chunk
BufferAt(s, g0, b) ==
    LET g == [a \in Axes |-> g0[a] + (b[a] \div s.chunk_sizes[a])]
        o == [a \in Axes |-> b[a] % s.chunk_sizes[a]]
        lo == ChunkLo(s, g)
        hi == ChunkHi(s, g)
    IN  IF \A a \in Axes : o[a] < hi[a] - lo[a]
        THEN Voxel([a \in Axes |-> lo[a] + o[a]])
        ELSE 0

\* a bound of a Python slice on an axis of length n
SliceBound(i, n) == IF i < 0 THEN Max2(i + n, 0) ELSE Min2(i, n)

CropStartNoGrid(s, b, g0) ==
    [a \in Axes |-> Trunc(b.minp[a], s.res[a])]

\* (bbox_.minpoint - data_min).astype("int")
CropStart(s, b, g0) ==
    [a \in Axes |->
        Trunc(b.minp[a] - g0[a] * s.chunk_sizes[a] * s.res[a], s.res[a])]

\* np.array(bbox_.shape).astype("int")
CropExtent(s, b) == [a \in Axes |-> Trunc(b.maxp[a] - b.minp[a], s.res[a])]

NoArray == [shape |-> <<0, 0, 0>>, values |-> <<>>]

\* NeuroglancerScale.fetch
fetch(s, voi) ==
    LET b0 == BoxVoxel(s, voi)
        b == Enlarge(s, b0)
        g0 == _point_to_lower_chunk_idx(s, b.minp)
        g1 == _point_to_upper_chunk_idx(s, b.maxp)
        buflen == [a \in Axes |-> (g1[a] - g0[a]) * s.chunk_sizes[a]]
        grid == (g0[1]..(g1[1] - 1)) \X (g0[2]..(g1[2] - 1)) \X (g0[3]..(g1[3] - 1))
        d0 == CropStart(s, b, g0)
        dd == CropExtent(s, b)
        start == [a \in Axes |-> SliceBound(d0[a], buflen[a])]
        stop == [a \in Axes |-> SliceBound(d0[a] + dd[a], buflen[a])]
        len == [a \in Axes |-> Max2(0, stop[a] - start[a])]
        base == [kind |-> "fetch", voi |-> voi, warned |-> ThinAxes(s, b0),
                 offset |-> b.minp]
    IN  IF \E a \in Axes : buflen[a] < 0
        THEN [outcome |-> "ValueError", array |-> NoArray] @@ base
        ELSE IF \E g \in grid : ~ChunkStored(s, ChunkLo(s, g), ChunkHi(s, g))
        THEN [outcome |-> "ReadError", array |-> NoArray] @@ base
        ELSE [outcome |-> "return",
              array |->
                  [shape |-> <<len[3], len[2], len[1]>>,
                   values |->
                       [i \in (0..(len[3] - 1)) \X (0..(len[2] - 1)) \X (0..(len[1] - 1)) |->
                           BufferAt(s, g0, <<start[1] + i[3], start[2] + i[2],
                                             start[3] + i[1]>>)]]] @@ base

InitFetch ==
    /\ sc \in FetchScales
    /\ fres = Idle

\* scale.fetch(None)
FetchAll ==
    /\ fres = Idle
    /\ fres' = fetch(sc, NoVoi)
    /\ UNCHANGED sc

\* scale.fetch(voi)
FetchBox ==
    /\ fres = Idle
    /\ \E voi \in Vois(sc) : fres' = fetch(sc, voi)
    /\ UNCHANGED sc

\* the caller is done with the result; the scale keeps nothing of the call
FetchDone ==
    /\ fres # Idle
    /\ fres' = Idle
    /\ UNCHANGED sc

NextFetch ==
    \/ FetchAll /\ UNCHANGED <<volVars, mapVars>>
    \/ FetchBox /\ UNCHANGED <<volVars, mapVars>>
    \/ FetchDone /\ UNCHANGED <<volVars, mapVars>>

IdleVolume ==
    /\ info = <<>>
    /\ itemsize = 0
    /\ maxBytes = 0
    /\ io = FALSE
    /\ scales_cached = Unset
    /\ sel = Idle
    /\ bootstraps = 0

InitFetchSpec == IdleVolume /\ InitFetch /\ map = Idle /\ call = Idle

SpecFetch == InitFetchSpec /\ [][NextFetch]_vars

(***************************************************************************)
(* Claims about NeuroglancerScale.fetch.                                   *)
(***************************************************************************)
IsFetch == fres.kind = "fetch"

\* the box has a whole number of voxels, at least one, on every axis
WholeVoxelExtent(s, voi) ==
    \A a \in Axes :
        /\ voi.maxp[a] - voi.minp[a] >= s.res[a]
        /\ (voi.maxp[a] - voi.minp[a]) % s.res[a] = 0

\* the box lies inside one chunk of the grid of the scale
InsideOneChunk(s, voi) ==
    \A a \in Axes :
        \E k \in 0..((s.size[a] - 1) \div s.chunk_sizes[a]) :
            LET lo == s.voxel_offset[a] + k * s.chunk_sizes[a]
                hi == Min2(lo + s.chunk_sizes[a], s.voxel_offset[a] + s.size[a])
            IN  lo * s.res[a] <= voi.minp[a] /\ voi.maxp[a] <= hi * s.res[a]

\* the array has the voxel extent of the box on every axis (the array axes
\* are z, y, x)
ShapeIsBoxExtent(s, r) ==
    \A a \in Axes : r.array.shape[4 - a] * s.res[a] = r.voi.maxp[a] - r.voi.minp[a]

\* C6: for every scale (any chunk sizes, voxel offset and size) and every
\* box lying inside one chunk of it, the array that fetch returns has on each
\* axis the voxel extent of the box
C6_SingleChunkShapeIsBoxExtent ==
    (IsFetch /\ ~fres.voi.isNone /\ WholeVoxelExtent(sc, fres.voi)
        /\ InsideOneChunk(sc, fres.voi) /\ fres.outcome = "return") =>
        ShapeIsBoxExtent(sc, fres)

\* the box falls on voxel borders and lies inside [0, size)
SubBoxOfExtent(s, voi) ==
    \A a \in Axes :
        /\ voi.minp[a] % s.res[a] = 0
        /\ voi.maxp[a] % s.res[a] = 0
        /\ voi.maxp[a] <= s.size[a] * s.res[a]

\* the voxels (x, y, z) inside the box
VoxelsIn(s, voi) ==
    ((voi.minp[1] \div s.res[1])..((voi.maxp[1] \div s.res[1]) - 1))
        \X ((voi.minp[2] \div s.res[2])..((voi.maxp[2] \div s.res[2]) - 1))
        \X ((voi.minp[3] \div s.res[3])..((voi.maxp[3] \div s.res[3]) - 1))

\* the array holds, at the place of voxel v relative to origin o, the value w
HoldsAt(arr, v, o, w) ==
    LET i == <<v[3] - o[3], v[2] - o[2], v[1] - o[1]>>
    IN  i \in DOMAIN arr.values /\ arr.values[i] = w

\* C7: when fetch(None) and the fetch of a sub-box both return, every voxel
\* v inside the sub-box has the same value in both results:
\* sub[v - min(sub)] = full[v]
C7_SubBoxAgreesWithFullExtent ==
    (IsFetch /\ ~fres.voi.isNone /\ fres.outcome = "return"
        /\ SubBoxOfExtent(sc, fres.voi)) =>
        LET full == fetch(sc, NoVoi)
            o == [a \in Axes |-> fres.voi.minp[a] \div sc.res[a]]
        IN  full.outcome = "return" =>
                \A v \in VoxelsIn(sc, fres.voi) :
                    /\ <<v[3], v[2], v[1]>> \in DOMAIN full.array.values
                    /\ HoldsAt(fres.array, v, o, full.array.values[<<v[3], v[2], v[1]>>])

\* a sub-box of at least one voxel per axis that starts inside the volume,
\* spans several chunks on two axes and ends in a chunk cut at the end of
\* the volume, with both fetches returning
C7_Witness ==
    /\ IsFetch /\ ~fres.voi.isNone /\ fres.outcome = "return"
    /\ SubBoxOfExtent(sc, fres.voi)
    /\ WholeVoxelExtent(sc, fres.voi)
    /\ fetch(sc, NoVoi).outcome = "return"
    /\ \E a, b \in Axes :
           /\ a # b
           /\ fres.voi.minp[a] > 0 /\ fres.voi.minp[b] > 0
           /\ fres.voi.maxp[a] = sc.size[a] * sc.res[a]
           /\ sc.size[a] % sc.chunk_sizes[a] # 0
           /\ _point_to_upper_chunk_idx(sc, fres.voi.maxp)[a]
                  - _point_to_lower_chunk_idx(sc, fres.voi.minp)[a] >= 2
           /\ _point_to_upper_chunk_idx(sc, fres.voi.maxp)[b]
                  - _point_to_lower_chunk_idx(sc, fres.voi.minp)[b] >= 2

(***************************************************************************)
(* The copy loop of NeuroglancerScale.fetch, chunk by chunk.               *)
(***************************************************************************)
\* the chunk indices of the loops "for gx ... for gy ... for gz", in the
\* order the loops visit them
GridOrder(g0, g1) ==
    LET n == [a \in Axes |-> Max2(0, g1[a] - g0[a])]
    IN  [k \in 1..(n[1] * n[2] * n[3]) |->
            <<g0[1] + ((k - 1) \div (n[2] * n[3])),
              g0[2] + (((k - 1) \div n[3]) % n[2]),
              g0[3] + ((k - 1) % n[3])>>]

\* chunk.shape, per axis (x, y, z): the voxel range read from the store
ChunkShape(s, g) == [a \in Axes |-> ChunkHi(s, g)[a] - ChunkLo(s, g)[a]]

ChunkStartUnshifted(s, g0, g) == [a \in Axes |-> g[a] * s.chunk_sizes[a]]

\* x0, y0, z0 of the loops: where the chunk goes in the buffer
ChunkStart(s, g0, g) == [a \in Axes |-> (g[a] - g0[a]) * s.chunk_sizes[a]]

\* the positions of data_zyx[z0:z1, y0:y1, x0:x1], as (x, y, z)
ChunkRegion(s, g0, g) ==
    LET lo == ChunkStart(s, g0, g)
        n == ChunkShape(s, g)
    IN  (lo[1]..(lo[1] + n[1] - 1)) \X (lo[2]..(lo[2] + n[2] - 1))
            \X (lo[3]..(lo[3] + n[3] - 1))

\* the positions of the buffer np.zeros(shape_zyx), as (x, y, z)
BufferPositions(buflen) ==
    (0..(buflen[1] - 1)) \X (0..(buflen[2] - 1)) \X (0..(buflen[3] - 1))

\* the buffer after the chunks are copied in the given order: a position
\* holds what the last chunk copied over it holds there, or the 0 of np.zeros
Assembled(s, g0, buflen, order) ==
    [b \in BufferPositions(buflen) |->
        LET covering == {k \in 1..Len(order) : b \in ChunkRegion(s, g0, order[k])}
        IN  IF covering = {} THEN 0
            ELSE LET g == order[CHOOSE k \in covering : \A j \in covering : j <= k]
                 IN  Voxel([a \in Axes |->
                         ChunkLo(s, g)[a] + b[a] - ChunkStart(s, g0, g)[a]])]

\* the order with its k-th chunk copied last
MovedLast(order, k) ==
    [i \in 1..Len(order) |->
        IF i < k THEN order[i] ELSE IF i < Len(order) THEN order[i + 1] ELSE order[k]]

\* the chunk grid, the buffer and the crop of a fetch
FetchGrid(s, voi) ==
    LET b == Enlarge(s, BoxVoxel(s, voi))
        g0 == _point_to_lower_chunk_idx(s, b.minp)
        g1 == _point_to_upper_chunk_idx(s, b.maxp)
        buflen == [a \in Axes |-> (g1[a] - g0[a]) * s.chunk_sizes[a]]
        d0 == CropStart(s, b, g0)
    IN  [g0 |-> g0, g1 |-> g1, buflen |-> buflen, order |-> GridOrder(g0, g1),
         start |-> [a \in Axes |-> SliceBound(d0[a], buflen[a])]]

\* C25: in a fetch that returns, the chunks of the grid footprint are copied
\* into pairwise disjoint regions of the buffer, each inside the bounds of
\* the buffer; the buffer is the same when any one chunk is copied last
\* instead (hence for every order), and the array returned is cut from it
C25_ChunkCopiesDisjoint ==
    (IsFetch /\ fres.outcome = "return") =>
        \A f \in {FetchGrid(sc, fres.voi)} :
            /\ \A i, j \in 1..Len(f.order) :
                   i # j => ChunkRegion(sc, f.g0, f.order[i])
                                \cap ChunkRegion(sc, f.g0, f.order[j]) = {}
            /\ \A i \in 1..Len(f.order) :
                   ChunkRegion(sc, f.g0, f.order[i]) \subseteq BufferPositions(f.buflen)
            /\ \A buf \in {Assembled(sc, f.g0, f.buflen, f.order)} :
                   /\ \A k \in 1..Len(f.order) :
                          Assembled(sc, f.g0, f.buflen, MovedLast(f.order, k)) = buf
                   /\ \A i \in DOMAIN fres.array.values :
                          fres.array.values[i] =
                              buf[<<f.start[1] + i[3], f.start[2] + i[2],
                                    f.start[3] + i[1]>>]

\* a fetch that returns after copying at least four chunks that lie along
\* two axes or more, one of them cut at the end of the volume
C25_Witness ==
    /\ IsFetch /\ fres.outcome = "return"
    /\ \E f \in {FetchGrid(sc, fres.voi)} :
           /\ Len(f.order) >= 4
           /\ \E a, b \in Axes : a # b /\ f.g1[a] - f.g0[a] >= 2 /\ f.g1[b] - f.g0[b] >= 2
           /\ \E k \in 1..Len(f.order) :
                  ChunkShape(sc, f.order[k]) # sc.chunk_sizes
           /\ fres.array.values # <<>>

\* the axes on which the box of the call has an extent < 1 voxel
ThinAxesOfCall == ThinAxes(sc, BoxVoxel(sc, fres.voi))

\* C26: for a box that has an axis of extent < 1 voxel, fetch warns about
\* each such axis and returns an array with exactly one voxel along it; it
\* never raises for such a box
C26_ThinBoxEnlargedToOneVoxel ==
    (IsFetch /\ ~fres.voi.isNone /\ ThinAxesOfCall # {}) =>
        /\ fres.outcome = "return"
        /\ \A a \in ThinAxesOfCall :
               a \in fres.warned /\ fres.array.shape[4 - a] = 1

(***************************************************************************)
(* Map (siibra/volumes/parcellationmap.py): region index table, volumes,   *)
(* get_index and fetch.                                                    *)
(***************************************************************************)
\* label=None, fragment=None, z=None
NoLabel == -1

NoFragment == "None"

NoZ == -1

\* commons.MapIndex: volume, label, fragment; equal when all three are
MapIndex(volume, label, fragment) ==
    [volume |-> volume, label |-> label, fragment |-> fragment]

\* one entry of the "indices" specification: index.get('volume', 0),
\* index.get('z'), index.get('label'), index.get('fragment')
Entry(volume, z, label, fragment) ==
    [volume |-> volume, z |-> z, label |-> label, fragment |-> fragment]

\* commons.clear_name: clutter around a region name is removed
clear_name(name) == IF name = "Area A" THEN "A" ELSE name

\* the map specifications built: indices (in dict order) and the number of
\* volume providers
MapSpecs ==
    { [indices |-> << <<"A", <<Entry(0, NoZ, 1, NoFragment)>> >>,
                      <<"B", <<Entry(0, NoZ, 2, NoFragment)>> >> >>,
       nvolumes |-> 1],
      [indices |-> << <<"A", <<Entry(0, NoZ, NoLabel, NoFragment)>> >>,
                      <<"B", <<Entry(1, NoZ, NoLabel, NoFragment)>> >> >>,
       nvolumes |-> 2],
      [indices |-> << <<"Area A", <<Entry(0, NoZ, 1, NoFragment),
                                    Entry(0, NoZ, 2, NoFragment)>> >>,
                      <<"B", <<Entry(0, NoZ, 1, NoFragment)>> >> >>,
       nvolumes |-> 1],
      [indices |-> << <<"A", <<Entry(0, NoZ, 1, "left")>> >>,
                      <<"B", <<Entry(0, NoZ, 1, "right")>> >> >>,
       nvolumes |-> 1],
      [indices |-> << <<"A", <<Entry(1, 0, NoLabel, NoFragment)>> >>,
                      <<"B", <<Entry(1, 1, NoLabel, NoFragment),
                               Entry(0, NoZ, NoLabel, NoFragment)>> >> >>,
       nvolumes |-> 2],
      [indices |-> << <<"A", <<Entry(0, NoZ, 1, NoFragment)>> >>,
                      <<"B", <<Entry(0, NoZ, 2, NoFragment)>> >>,
                      <<"C", <<Entry(0, NoZ, NoLabel, NoFragment)>> >> >>,
       nvolumes |-> 1],
      [indices |-> << <<"A", <<Entry(1, 0, 1, NoFragment)>> >>,
                      <<"B", <<Entry(0, NoZ, 1, NoFragment),
                               Entry(1, 0, 2, NoFragment)>> >>,
                      <<"C", <<Entry(1, 1, 1, NoFragment)>> >> >>,
       nvolumes |-> 2],
      [indices |-> << >>, nvolumes |-> 0] }

\* position of x in the sequence s, counted from 0; Len(s) when absent
Position(s, x) ==
    IF \E i \in 1..Len(s) : s[i] = x
    THEN (CHOOSE i \in 1..Len(s) : s[i] = x /\ \A j \in 1..(i - 1) : s[j] # x) - 1
    ELSE Len(s)

RECURSIVE AddIndicesEach(_, _, _, _)
AddIndicesEach(m, k, indexlist, i) ==
    IF i > Len(indexlist) THEN m
    ELSE LET index == indexlist[i]
             vols == Append(m.volumes, <<index.volume, index.z>>)
             mi == MapIndex(Len(vols) - 1, index.label, index.fragment)
         IN  AddIndicesEach([volumes |-> vols,
                             _indices |-> [m._indices EXCEPT ![k] = Append(@, mi)]],
                            k, indexlist, i + 1)

\* Map.__init__, the loop over one region's index list: each (volume, z)
\* pair gets one entry of self.volumes, and the index is remapped to it
RECURSIVE AddIndices(_, _, _, _)
AddIndices(m, k, indexlist, i) ==
    IF i > Len(indexlist) THEN m
    ELSE LET index == indexlist[i]
             pair == <<index.volume, index.z>>
             vols == IF Position(m.volumes, pair) = Len(m.volumes)
                     THEN Append(m.volumes, pair) ELSE m.volumes
             mi == MapIndex(Position(vols, pair), index.label, index.fragment)
         IN  AddIndices([volumes |-> vols,
                         _indices |-> [m._indices EXCEPT ![k] = Append(@, mi)]],
                        k, indexlist, i + 1)

\* Map.__init__, the loop over the regions
RECURSIVE AddRegions(_, _, _)
AddRegions(m, indices, r) ==
    IF r > Len(indices) THEN m
    ELSE LET k == clear_name(indices[r][1])
             started == [volumes |-> m.volumes,
                         _indices |-> (k :> <<>>) @@ m._indices]
         IN  AddRegions(AddIndices(started, k, indices[r][2], 1), indices, r + 1)

\* Map.__init__
Map__init__(spec) ==
    [kind |-> "map"] @@ AddRegions([volumes |-> <<>>, _indices |-> <<>>], spec.indices, 1)

\* the names the parcellation knows, and parcellation.find(spec): the
\* names a region specification matches in the external registry
ParcellationNames == {"A", "B", "C"}

find(regionname) ==
    IF regionname \in ParcellationNames THEN {regionname}
    ELSE IF regionname = "Area" THEN ParcellationNames
    ELSE {}

\* what a caller passes as `region`: nothing, a string, a Region object, or
\* (as fetch_iter, compress and affine do) a MapIndex or a volume number
NoRegion == [type |-> "None", name |-> "", index |-> MapIndex(0, NoLabel, NoFragment)]

StrRegion(name) == [type |-> "str", name |-> name, index |-> MapIndex(0, NoLabel, NoFragment)]

ObjRegion(name) == [type |-> "Region", name |-> name, index |-> MapIndex(0, NoLabel, NoFragment)]

IdxRegion(mi) == [type |-> "MapIndex", name |-> "", index |-> mi]

IntRegion(v) == [type |-> "int", name |-> "", index |-> MapIndex(v, NoLabel, NoFragment)]

RegionSpecs ==
    {StrRegion(n) : n \in {"A", "B", "C", "Area", "Z"}}
        \cup {ObjRegion(n) : n \in ParcellationNames}

\* a stored MapIndex object: the region key and the position in its list
Refs(m) ==
    UNION {{<<k, i>> : i \in 1..Len(m._indices[k])} : k \in DOMAIN m._indices}

Deref(m, ref) == m._indices[ref[1]][ref[2]]

\* Map.find_indices: the stored objects that become the keys of the
\* returned dict, one for each distinct MapIndex matched.  The regions of a
\* fuzzy match are visited in the order of a set, so the object kept for a
\* MapIndex held by several regions is any of them
find_indices(m, region) ==
    LET names == IF region.type = "str" /\ region.name \in DOMAIN m._indices
                 THEN {region.name}
                 ELSE find(region.name) \cap DOMAIN m._indices
        refs == {r \in Refs(m) : r[1] \in names}
        firstOfRegion == {r \in refs :
                             \A j \in 1..(r[2] - 1) :
                                 m._indices[r[1]][j] # Deref(m, r)}
    IN  [warned |-> names = {},
         keys |-> {Deref(m, r) : r \in refs},
         objects |-> firstOfRegion]

get_indexFirst(m, region) ==
    LET matches == find_indices(m, region)
    IN  IF Cardinality(matches.keys) = 0
        THEN [outcome |-> "RuntimeError", objects |-> {}, listed |-> {}]
        ELSE [outcome |-> "return", objects |-> matches.objects, listed |-> {}]

\* Map.get_index
get_index(m, region) ==
    LET matches == find_indices(m, region)
    IN  IF Cardinality(matches.keys) > 1
        THEN [outcome |-> "RuntimeError", objects |-> {}, listed |-> matches.keys]
        ELSE IF Cardinality(matches.keys) = 0
        THEN [outcome |-> "RuntimeError", objects |-> {}, listed |-> {}]
        ELSE [outcome |-> "return", objects |-> matches.objects, listed |-> {}]

FragmentArgs == {NoFragment, "left", "right"}

\* the MapIndex objects a caller builds itself
FreshIndices ==
    {MapIndex(v, l, NoFragment) : v \in 0..2, l \in {NoLabel, 1, 2}}

NoRef == <<"", 0>>

Nothing == [volume |-> -1, fragment |-> NoFragment, label |-> NoLabel]

\* Map.fetch from the point where mapindex is bound: the object is the
\* stored one `ref` (mutated in place) or the caller's own (ref = NoRef)
FetchIndex(m, mapindex, ref, fragment, provider) ==
    LET conflict == /\ fragment # NoFragment
                    /\ mapindex.fragment # NoFragment
                    /\ fragment # mapindex.fragment
        mi == IF fragment # NoFragment /\ ~conflict
              THEN [mapindex EXCEPT !.fragment = fragment] ELSE mapindex
        m1 == IF ref # NoRef
              THEN [m EXCEPT !._indices[ref[1]][ref[2]] = mi] ELSE m
        asked == [volume |-> mi.volume, fragment |-> mi.fragment, label |-> NoLabel]
    IN  IF conflict
        THEN [map |-> m, outcome |-> "ValueError", provided |-> FALSE, fetched |-> Nothing]
        ELSE IF mi.volume >= Len(m.volumes)
        THEN [map |-> m1, outcome |-> "ValueError", provided |-> FALSE, fetched |-> Nothing]
        ELSE IF provider = "SiibraHttpRequestError"
        THEN [map |-> m1, outcome |-> "UnboundLocalError", provided |-> TRUE,
              fetched |-> Nothing]
        ELSE [map |-> m1, outcome |-> "return", provided |-> TRUE,
              fetched |-> [asked EXCEPT !.label = mi.label]]

\* what a caller passes as `index`: nothing, a MapIndex it built, or a
\* stored MapIndex it got from get_index
NoIndex == [given |-> FALSE, ref |-> NoRef, index |-> MapIndex(0, NoLabel, NoFragment)]

OwnIndex(mi) == [given |-> TRUE, ref |-> NoRef, index |-> mi]

StoredIndex(m, ref) == [given |-> TRUE, ref |-> ref, index |-> Deref(m, ref)]

RegionArgs ==
    {NoRegion} \cup RegionSpecs
        \cup {IdxRegion(MapIndex(v, NoLabel, NoFragment)) : v \in 0..1}
        \cup {IntRegion(v) : v \in 0..1}

IndexArgs(m) ==
    {NoIndex} \cup {OwnIndex(mi) : mi \in FreshIndices}
        \cup {StoredIndex(m, ref) : ref \in Refs(m)}

ProviderOutcomes == {"ok", "SiibraHttpRequestError"}

Raised(m, error) ==
    [map |-> m, outcome |-> error, provided |-> FALSE, fetched |-> Nothing]

\* Map.fetch: the ways the call can end (one, unless the stored object that
\* get_index returns depends on set order)
Map_fetch(m, region, index, fragment, provider) ==
    IF region.type # "None" /\ index.given
    THEN {Raised(m, "ValueError")}
    ELSE IF region.type = "str"
    THEN LET got == get_index(m, region)
         IN  IF got.outcome # "return" THEN {Raised(m, got.outcome)}
             ELSE {FetchIndex(m, Deref(m, ref), ref, fragment, provider) :
                       ref \in got.objects}
    ELSE IF index.given
    THEN {FetchIndex(m, index.index, index.ref, fragment, provider)}
    ELSE IF Len(m.volumes) = 1
    THEN {FetchIndex(m, MapIndex(0, NoLabel, NoFragment), NoRef, fragment, provider)}
    ELSE {Raised(m, "ValueError")}

\* Map.labels: the labels of the table, None (NoLabel) included
labels(m) ==
    UNION {{m._indices[k][i].label : i \in 1..Len(m._indices[k])} :
               k \in DOMAIN m._indices}

maptypeAny(m) ==
    IF \E l \in labels(m) : l # NoLabel THEN "LABELLED"
    ELSE IF labels(m) = {NoLabel} THEN "CONTINUOUS"
    ELSE "RuntimeError"

\* Map.maptype
maptype(m) ==
    IF \A l \in labels(m) : l # NoLabel THEN "LABELLED"
    ELSE IF labels(m) = {NoLabel} THEN "CONTINUOUS"
    ELSE "RuntimeError"

\* Map.fetch_iter, consumed to its end: fetch(MapIndex(volume=i, label=None))
\* for i = 0 .. len(self) - 1, the MapIndex passed as first positional
\* argument; the first exception ends the iteration
RECURSIVE fetch_iter(_, _, _, _, _)
fetch_iter(m, fragment, provider, i, yielded) ==
    IF i >= Len(m.volumes)
    THEN [map |-> m, outcome |-> "StopIteration", yielded |-> yielded]
    ELSE LET rs == Map_fetch(m, IdxRegion(MapIndex(i, NoLabel, NoFragment)),
                             NoIndex, fragment, provider)
             r == CHOOSE x \in rs : TRUE
         IN  IF r.outcome # "return"
             THEN [map |-> r.map, outcome |-> r.outcome, yielded |-> yielded]
             ELSE fetch_iter(r.map, fragment, provider, i + 1,
                             Append(yielded, r.fetched))

get_regionSwapped(m, label, volume) ==
    LET index == MapIndex(volume, label, NoFragment)
        matches == {k \in DOMAIN m._indices :
                        \E i \in 1..Len(m._indices[k]) : m._indices[k][i] = index}
        others == DOMAIN m._indices \ matches
    IN  IF matches = {} THEN [outcome |-> "None", name |-> ""]
        ELSE IF Cardinality(matches) = 1
        THEN [outcome |-> "return",
              name |-> IF others = {} THEN CHOOSE k \in matches : TRUE
                       ELSE CHOOSE k \in others : TRUE]
        ELSE [outcome |-> "RuntimeError", name |-> ""]

\* Map.get_region(label=label, volume=volume): the region whose index list
\* holds MapIndex(volume, label)
get_region(m, label, volume) ==
    LET index == MapIndex(volume, label, NoFragment)
        matches == {k \in DOMAIN m._indices :
                        \E i \in 1..Len(m._indices[k]) : m._indices[k][i] = index}
    IN  IF matches = {} THEN [outcome |-> "None", name |-> ""]
        ELSE IF Cardinality(matches) = 1
        THEN [outcome |-> "return", name |-> CHOOSE k \in matches : TRUE]
        ELSE [outcome |-> "RuntimeError", name |-> ""]

InitMap ==
    /\ map \in {Map__init__(spec) : spec \in MapSpecs}
    /\ call = Idle

\* map.get_index(region)
GetIndex ==
    /\ call = Idle
    /\ \E region \in RegionSpecs :
           LET got == get_index(map, region)
           IN  \E result \in IF got.outcome = "return"
                             THEN {Deref(map, ref) : ref \in got.objects}
                             ELSE {MapIndex(0, NoLabel, NoFragment)} :
                   call' = [kind |-> "get_index", region |-> region, before |-> map,
                            outcome |-> got.outcome, result |-> result,
                            listed |-> got.listed]
    /\ UNCHANGED map

\* map.fetch(region, index, fragment=...) with the provider answering or
\* failing with the request error
MapFetch ==
    /\ call = Idle
    /\ \E region \in RegionArgs, index \in IndexArgs(map),
          fragment \in FragmentArgs, provider \in ProviderOutcomes :
           \E r \in Map_fetch(map, region, index, fragment, provider) :
               /\ map' = r.map
               /\ call' = [kind |-> "fetch", region |-> region, index |-> index,
                           fragment |-> fragment, provider |-> provider,
                           before |-> map, outcome |-> r.outcome,
                           provided |-> r.provided, fetched |-> r.fetched]

\* map.maptype
GetMapType ==
    /\ call = Idle
    /\ call' = [kind |-> "maptype", before |-> map, outcome |-> maptype(map)]
    /\ UNCHANGED map

\* list(map.fetch_iter(fragment=...)), or iteration over the map
FetchIter ==
    /\ call = Idle
    /\ \E fragment \in FragmentArgs, provider \in ProviderOutcomes :
           LET r == fetch_iter(map, fragment, provider, 0, <<>>)
           IN  /\ map' = r.map
               /\ call' = [kind |-> "fetch_iter", fragment |-> fragment,
                           provider |-> provider, before |-> map,
                           outcome |-> r.outcome, yielded |-> r.yielded]

\* map.get_region(label=..., volume=...)
GetRegion ==
    /\ call = Idle
    /\ \E label \in {NoLabel, 1, 2}, volume \in 0..Len(map.volumes) :
           \E r \in {get_region(map, label, volume)} :
               call' = [kind |-> "get_region", before |-> map, label |-> label,
                        volume |-> volume, outcome |-> r.outcome, name |-> r.name]
    /\ UNCHANGED map

\* the caller is done with the result or the exception
MapDone ==
    /\ call # Idle
    /\ call' = Idle
    /\ UNCHANGED map

NextMap ==
    \/ GetIndex /\ UNCHANGED <<volVars, fetchVars>>
    \/ MapFetch /\ UNCHANGED <<volVars, fetchVars>>
    \/ GetMapType /\ UNCHANGED <<volVars, fetchVars>>
    \/ FetchIter /\ UNCHANGED <<volVars, fetchVars>>
    \/ GetRegion /\ UNCHANGED <<volVars, fetchVars>>
    \/ MapDone /\ UNCHANGED <<volVars, fetchVars>>

InitMapSpec == IdleVolume /\ sc = Idle /\ fres = Idle /\ InitMap

SpecMap == InitMapSpec /\ [][NextMap]_vars

(***************************************************************************)
(* Claims about Map.fetch and Map.get_index.                               *)
(***************************************************************************)
IsMapFetch == call.kind = "fetch"

RegionGiven == call.region.type # "None"

\* the structure a region argument addresses in the table before the call
MatchedNames(m, region) ==
    IF region.type = "str" /\ region.name \in DOMAIN m._indices
    THEN {region.name}
    ELSE {n \in DOMAIN m._indices : n \in find(region.name)}

MatchedIndices(m, region) ==
    UNION {{m._indices[n][i] : i \in 1..Len(m._indices[n])} :
               n \in MatchedNames(m, region)}

The(S) == CHOOSE x \in S : TRUE

\* the fetched structure is volume v, masked to label l (or unmasked)
Fetched(v, l) == call.fetched.volume = v /\ call.fetched.label = l

\* the fetched structure is the one the argument of the call addresses
FetchedAddressed ==
    IF call.index.given
    THEN Fetched(call.index.index.volume, call.index.index.label)
    ELSE IF call.region.type \in {"MapIndex", "int"}
    THEN Fetched(call.region.index.volume, call.region.index.label)
    ELSE LET M == MatchedIndices(call.before, call.region)
         IN  Cardinality(M) = 1 => Fetched(The(M).volume, The(M).label)

\* C8: fetch raises ValueError when both region and index are given, and
\* when neither is given on a map with several volumes; with neither given
\* on a single-volume map it fetches volume 0 unmasked; with exactly one of
\* them given, whatever its type, a fetch that returns has fetched the
\* structure that argument addresses
C8_FetchArguments ==
    IsMapFetch =>
        /\ (RegionGiven /\ call.index.given) => call.outcome = "ValueError"
        /\ (~RegionGiven /\ ~call.index.given /\ Len(call.before.volumes) > 1)
               => call.outcome = "ValueError"
        /\ (~RegionGiven /\ ~call.index.given /\ Len(call.before.volumes) = 1
               /\ call.provider = "ok")
               => (call.outcome = "return" /\ Fetched(0, NoLabel))
        /\ ((RegionGiven # call.index.given) /\ call.outcome = "return")
               => FetchedAddressed

C10_RequestErrorPropagates ==
    (IsMapFetch /\ call.provided /\ call.provider = "SiibraHttpRequestError") =>
        call.outcome = "SiibraHttpRequestError"

\* C11: maptype is LABELLED when every label of the table is an integer,
\* CONTINUOUS when the table has labels and every one is absent, and raises
\* the inconsistency RuntimeError when the table holds both integer and
\* absent labels
C11_MapTypeFromLabels ==
    call.kind = "maptype" =>
        LET L == labels(call.before)
        IN  /\ (\A l \in L : l # NoLabel) => call.outcome = "LABELLED"
            /\ (L # {} /\ \A l \in L : l = NoLabel) => call.outcome = "CONTINUOUS"
            /\ ((\E l \in L : l # NoLabel) /\ NoLabel \in L)
                   => call.outcome = "RuntimeError"

\* maptype of a table with labels 1, 2 and None
C11_Witness ==
    /\ call.kind = "maptype"
    /\ {1, 2, NoLabel} \subseteq labels(call.before)
    /\ call.outcome = "RuntimeError"

\* C12: no call of fetch changes the region index table: every stored
\* MapIndex is the same after the call as before it
C12_FetchLeavesTableUnchanged ==
    IsMapFetch => map._indices = call.before._indices

\* C13: on a map with N >= 1 volumes whose providers answer, fetch_iter
\* yields exactly N images, the i-th being volume i unmasked, and does not
\* raise
C13_FetchIterYieldsEachVolume ==
    (call.kind = "fetch_iter" /\ call.provider = "ok"
        /\ Len(call.before.volumes) >= 1) =>
        /\ call.outcome = "StopIteration"
        /\ Len(call.yielded) = Len(call.before.volumes)
        /\ \A i \in 1..Len(call.yielded) :
               /\ call.yielded[i].volume = i - 1
               /\ call.yielded[i].label = NoLabel

(***************************************************************************)
(* Map with image data: compress (siibra/volumes/parcellationmap.py).      *)
(* A volume is an array over the voxels 0 .. MaxVoxels - 1 of one axis     *)
(* (shape (MaxVoxels, 1, 1)); all volumes and the template share the       *)
(* identity affine, so no resampling takes place.                          *)
(***************************************************************************)
MaxVoxels == 3

Voxels == 1..MaxVoxels

DataValues == 0..2

DataArrays == [Voxels -> DataValues]

\* np.zeros_like(template)
Zeros == [i \in Voxels |-> 0]

\* list(self._indices): the keys of the table in insertion order
RECURSIVE KeyOrder(_, _, _)
KeyOrder(indices, r, keys) ==
    IF r > Len(indices) THEN keys
    ELSE KeyOrder(indices, r + 1,
                  IF \E j \in 1..Len(keys) : keys[j] = clear_name(indices[r][1])
                  THEN keys ELSE Append(keys, clear_name(indices[r][1])))

\* the map built by Map.__init__ from a specification and the images its
\* volume providers hold
MapOf(spec, images) ==
    [data |-> [i \in 1..Len(Map__init__(spec).volumes) |->
                  images[Map__init__(spec).volumes[i][1] + 1]],
     order |-> KeyOrder(spec.indices, 1, <<>>)] @@ Map__init__(spec)

LabelledAB ==
    [indices |-> << <<"A", <<Entry(0, NoZ, 1, NoFragment)>> >>,
                    <<"B", <<Entry(0, NoZ, 2, NoFragment)>> >> >>,
     nvolumes |-> 1]

LabelledA12 ==
    [indices |-> << <<"A", <<Entry(0, NoZ, 1, NoFragment),
                             Entry(0, NoZ, 2, NoFragment)>> >> >>,
     nvolumes |-> 1]

ContinuousA ==
    [indices |-> << <<"A", <<Entry(0, NoZ, NoLabel, NoFragment)>> >> >>,
     nvolumes |-> 1]

LabelledTwoVolumes ==
    [indices |-> << <<"A", <<Entry(0, NoZ, 1, NoFragment)>> >>,
                    <<"B", <<Entry(1, NoZ, 1, NoFragment)>> >> >>,
     nvolumes |-> 2]

ContinuousTwoVolumes ==
    [indices |-> << <<"A", <<Entry(0, NoZ, NoLabel, NoFragment)>> >>,
                    <<"B", <<Entry(1, NoZ, NoLabel, NoFragment)>> >> >>,
     nvolumes |-> 2]

MixedAB ==
    [indices |-> << <<"A", <<Entry(0, NoZ, 1, NoFragment)>> >>,
                    <<"B", <<Entry(0, NoZ, NoLabel, NoFragment)>> >> >>,
     nvolumes |-> 1]

\* the second volume of the two-volume maps
SecondImages == {[i \in Voxels |-> 1], [i \in Voxels |-> IF i = 1 THEN 0 ELSE 2]}

DataMaps ==
    {MapOf(spec, <<d>>) :
         spec \in {LabelledAB, LabelledA12, ContinuousA}, d \in DataArrays}
      \cup {MapOf(spec, <<d, e>>) :
                spec \in {LabelledTwoVolumes, ContinuousTwoVolumes},
                d \in DataArrays, e \in SecondImages}
      \cup {MapOf(MixedAB, <<Zeros>>)}

\* region_indices[name].append(entry) on the defaultdict(list)
AppendIndex(region_indices, name, entry) ==
    IF \E r \in 1..Len(region_indices) : region_indices[r][1] = name
    THEN [r \in 1..Len(region_indices) |->
              IF region_indices[r][1] = name
              THEN <<name, Append(region_indices[r][2], entry)>>
              ELSE region_indices[r]]
    ELSE Append(region_indices, <<name, <<entry>> >>)

\* update_voxels: img_data > voxelwise_max for a continuous volume,
\* img_data == label for a labelled one
UpdateVoxels(img_data, voxelwise_max, label) ==
    [i \in Voxels |-> IF label = NoLabel THEN img_data[i] > voxelwise_max[i]
                      ELSE img_data[i] = label]

RelabelShifted(result_data, update_voxels, next_labelindex) ==
    [i \in Voxels |-> IF update_voxels[i] THEN next_labelindex + 1
                      ELSE result_data[i]]

\* result_data[update_voxels] = next_labelindex
Relabel(result_data, update_voxels, next_labelindex) ==
    [i \in Voxels |-> IF update_voxels[i] THEN next_labelindex
                      ELSE result_data[i]]

\* the orders in which a set is iterated
Orders(S) ==
    {s \in [1..Cardinality(S) -> S] :
         \A i, j \in 1..Cardinality(S) : i # j => s[i] # s[j]}

\* Map.compress, the loop over the labels of one volume
RECURSIVE CompressLabels(_, _, _, _, _, _)
CompressLabels(m, vol, img_data, order, i, st) ==
    IF i > Len(order) THEN st
    ELSE LET label == order[i]
             region == get_region(m, label, vol)
             update_voxels == UpdateVoxels(img_data, st.voxelwise_max, label)
         IN  IF region.outcome = "RuntimeError"
             THEN [st EXCEPT !.outcome = "RuntimeError"]
             ELSE IF region.outcome = "None"
             THEN CompressLabels(m, vol, img_data, order, i + 1,
                                 [st EXCEPT !.warned = TRUE])
             ELSE CompressLabels(m, vol, img_data, order, i + 1,
                    [st EXCEPT
                       !.region_indices =
                           AppendIndex(@, region.name,
                                       Entry(0, NoZ, st.next_labelindex, NoFragment)),
                       !.result_data = Relabel(@, update_voxels, st.next_labelindex),
                       !.voxelwise_max =
                           [v \in Voxels |-> IF update_voxels[v] THEN img_data[v]
                                             ELSE @[v]],
                       !.assigned = Append(@, st.next_labelindex),
                       !.next_labelindex = @ + 1])

\* Map.compress, the loop over the volumes: img = self.fetch(vol), the
\* volume number passed as first positional argument
RECURSIVE CompressVolumes(_, _, _, _)
CompressVolumes(m, vol, st, provider) ==
    IF vol >= Len(m.volumes) THEN {st}
    ELSE LET r == CHOOSE x \in Map_fetch(m, IntRegion(vol), NoIndex,
                                         NoFragment, provider) : TRUE
         IN  IF r.outcome # "return" THEN {[st EXCEPT !.outcome = r.outcome]}
             ELSE LET img_data == m.data[r.fetched.volume + 1]
                      found == IF maptype(m) = "LABELLED"
                               THEN {img_data[i] : i \in Voxels} \ {0}
                               ELSE {NoLabel}
                  IN  UNION {LET st2 == CompressLabels(m, vol, img_data, order, 1, st)
                             IN  IF st2.outcome # "ok" THEN {st2}
                                 ELSE CompressVolumes(m, vol + 1, st2, provider) :
                                 order \in Orders(found)}

NoMap == [kind |-> "None"]

\* Map.compress: the ways the call can end
compress(m, provider) ==
    IF maptype(m) = "RuntimeError"
    THEN {[outcome |-> "RuntimeError", result |-> NoMap, assigned |-> <<>>]}
    ELSE LET st0 == [outcome |-> "ok", warned |-> FALSE, region_indices |-> <<>>,
                     result_data |-> Zeros, voxelwise_max |-> Zeros,
                     assigned |-> <<>>, next_labelindex |-> 1]
         IN  {IF st.outcome # "ok"
              THEN [outcome |-> st.outcome, result |-> NoMap, assigned |-> <<>>]
              ELSE [outcome |-> "return",
                    result |-> MapOf([indices |-> st.region_indices, nvolumes |-> 1],
                                     <<st.result_data>>),
                    assigned |-> st.assigned] :
                  st \in CompressVolumes(m, 0, st0, provider)}

(***************************************************************************)
(* Map.assign: points, point sets and images against the map               *)
(* (siibra/volumes/parcellationmap.py).  A coordinate is the exact         *)
(* fraction num/den of a voxel along the one axis of the volumes; the      *)
(* affine of the map is the identity, so physical and voxel coordinates    *)
(* coincide and sigma is counted in voxels.                                *)
(***************************************************************************)
\* np.nan, and a defined ratio num/den
NaN == <<0, 0>>

Ratio(num, den) == IF den = 0 THEN NaN ELSE <<num, den>>

\* self.affine: the affine of self.fetch(0, format=fmt); the volume number
\* is passed as first positional argument and only RuntimeError is caught
AffineOutcome(m) ==
    (CHOOSE r \in Map_fetch(m, IntRegion(0), NoIndex, NoFragment, "ok") : TRUE).outcome

\* (np.dot(phys2vox, coordinate) + 0.5).astype("int"): towards zero
VoxelIndex(c) == Trunc(2 * c[1] + c[2], 2 * c[2])

\* position in the array that numpy reads for an index: a negative index
\* counts from the end, an index outside -MaxVoxels .. MaxVoxels - 1 is an
\* IndexError (0 here)
NumpyIndex(idx) ==
    IF idx \in 0..(MaxVoxels - 1) THEN idx + 1
    ELSE IF idx \in (-MaxVoxels)..(-1) THEN MaxVoxels + idx + 1
    ELSE 0

\* Map._read_voxel(X, Y, Z) with index arrays: (pointindex, volume, value)
\* for every volume of enumerate(self) and every point
_read_voxel(m, X) ==
    LET it == fetch_iter(m, NoFragment, "ok", 0, <<>>)
        P == Len(X)
        N == Len(it.yielded)
    IN  IF N >= 1 /\ \E p \in 1..P : NumpyIndex(X[p]) = 0
        THEN [outcome |-> "IndexError", values |-> <<>>]
        ELSE IF it.outcome # "StopIteration"
        THEN [outcome |-> it.outcome, values |-> <<>>]
        ELSE [outcome |-> "return",
              values |-> [k \in 1..(N * P) |->
                  LET v == ((k - 1) \div P) + 1
                      q == ((k - 1) % P) + 1
                  IN  <<q - 1, v - 1,
                        m.data[it.yielded[v].volume + 1][NumpyIndex(X[q])]>>]]

\* a row of `assignments`:
\* [structure, volume, value or label, iou, contained, contains, correlation]
Row(structure, volume, value, iou, contained, contains, rho) ==
    [structure |-> structure, volume |-> volume, value |-> value, iou |-> iou,
     contained |-> contained, contains |-> contains, correlation |-> rho]

PointRow(v) == Row(v[1], v[2], v[3], NaN, NaN, NaN, NaN)

\* the affine of the map (the identity) and of a query image, by its
\* translation column: the other entries are those of the identity
MapAffine == <<0, 0, 0>>

\* the items assigned: a Point, a PointSet (coordinates and sigma of each
\* point) or an image with its data and affine
Point(c, sigma) == [type |-> "Point", coords |-> <<c>>, sigma |-> <<sigma>>]

PointSet(cs, sigmas) == [type |-> "PointSet", coords |-> cs, sigma |-> sigmas]

ImageAt(d, affine) == [type |-> "Image", data |-> d, affine |-> affine]

\* an image with the affine of the map
Image(d) == ImageAt(d, MapAffine)

\* PointSet.has_constant_sigma
has_constant_sigma(points) ==
    \A i, j \in 1..Len(points.sigma) : points.sigma[i] = points.sigma[j]

\* int(kernel.shape[0] / 2) of create_gaussian_kernel(sigma_vox, 3), for the
\* sigma of 3 voxels
KernelRadius == 9

\* Map._assign_points, one point handled on its own (points of varying
\* sigma).  Voxel-precise: x, y, z are numpy integers, not int, so
\* _read_voxel takes its array branch and enumerates the single value read.
\* Uncertain: the kernel image has the affine of the map shifted by
\* xyz_vox - r; the image path resamples it to self.shape, which Map does
\* not define, unless the entries of the shift sum to 0, and then the table
\* that assign returns is unpacked into two names
AssignOnePoint(m, c, sigma) ==
    IF sigma < 3
    THEN IF NumpyIndex(VoxelIndex(c)) = 0 THEN "IndexError" ELSE "TypeError"
    ELSE IF (VoxelIndex(c) - KernelRadius) - KernelRadius - KernelRadius # 0
    THEN "AttributeError"
    ELSE "ValueError"

\* Map._assign_points; `affine` is the outcome of reading self.affine
_assign_points(m, points, lower_threshold, affine) ==
    IF affine # "return" THEN [outcome |-> affine, rows |-> <<>>]
    ELSE IF ~has_constant_sigma(points)
    THEN [outcome |-> AssignOnePoint(m, points.coords[1], points.sigma[1]),
          rows |-> <<>>]
    ELSE IF points.sigma[1] >= 3 THEN [outcome |-> "return", rows |-> <<>>]
    ELSE CHOOSE res \in
           {IF rv.outcome # "return" THEN [outcome |-> rv.outcome, rows |-> <<>>]
            ELSE [outcome |-> "return",
                  rows |-> LET Above(v) == v[3] > lower_threshold
                               kept == SelectSeq(rv.values, Above)
                           IN  [k \in 1..Len(kept) |-> PointRow(kept[k])]] :
              rv \in {_read_voxel(m, [p \in 1..Len(points.coords) |->
                                         VoxelIndex(points.coords[p])])}} : TRUE

\* skimage.measure.label(imgdata > 0): the component number of each voxel,
\* components numbered from 1 along the axis, 0 for the background
Components(d) ==
    [i \in Voxels |->
        IF d[i] > 0
        THEN Cardinality({j \in 1..i : d[j] > 0 /\ (j = 1 \/ ~(d[j - 1] > 0))})
        ELSE 0]

\* commons.compare_maps of two binary masks, given as voxel sets
compare_maps(A, B) ==
    LET inter == Cardinality(A \cap B)
        a == Cardinality(A)
        b == Cardinality(B)
    IN  [overlap |-> inter,
         iou |-> Ratio(inter, Cardinality(A \cup B)),
         contained |-> Ratio(inter, a),
         contains |-> Ratio(inter, b),
         \* Pearson correlation r, kept as the pair
         \* (numerator of r, square of its denominator)
         correlation |-> Ratio(MaxVoxels * inter - a * b,
                               a * (MaxVoxels - a) * b * (MaxVoxels - b))]

\* the entries of the table in the order of self._indices.values()
RECURSIVE TableFrom(_, _)
TableFrom(m, k) ==
    IF k > Len(m.order) THEN <<>>
    ELSE [i \in 1..Len(m._indices[m.order[k]]) |-> <<m.order[k], i>>]
             \o TableFrom(m, k + 1)

TableOrder(m) == TableFrom(m, 1)

\* Map._assign_image, the rows of one component and one volume: the labels
\* mapped in the volume, scored against the component
RowsOfVolume(m, mode, maskimg, vol, vol_data) ==
    LET refs == TableOrder(m)
        Scored(r) == compare_maps(maskimg,
                                  {i \in Voxels : vol_data[i] = Deref(m, r).label})
        Hit(r) == Deref(m, r).volume = vol /\ Scored(r).overlap > 0
        hits == SelectSeq(refs, Hit)
    IN  [k \in 1..Len(hits) |->
            LET s == Scored(hits[k])
            IN  Row(mode, vol, Deref(m, hits[k]).label, s.iou, s.contained,
                    s.contains, s.correlation)]

\* Map._assign_image, the loops over the components and the volumes
\* yielded by enumerate(self), from the k-th pair on
RECURSIVE RowsFrom(_, _, _, _, _)
RowsFrom(m, components, yielded, K, k) ==
    IF k > K * Len(yielded) THEN <<>>
    ELSE RowsOfVolume(m, ((k - 1) \div Len(yielded)) + 1,
                      {i \in Voxels : components[i] = ((k - 1) \div Len(yielded)) + 1},
                      (k - 1) % Len(yielded),
                      m.data[yielded[((k - 1) % Len(yielded)) + 1].volume + 1])
             \o RowsFrom(m, components, yielded, K, k + 1)

\* (queryimg.affine - self.affine).sum() == 0
AffinesSumEqual(a, b) == (a[1] - b[1]) + (a[2] - b[2]) + (a[3] - b[3]) = 0

\* Map._assign_image; `affine` is the outcome of reading self.affine.  The
\* query image is used as it is when the test on the affines passes, and
\* resampled with target_shape=self.shape, which Map does not define,
\* otherwise.  Neither minsize_voxel nor lower_threshold is read anywhere
\* in the method
_assign_image(m, queryimg, minsize_voxel, affine) ==
    IF affine # "return" THEN [outcome |-> affine, rows |-> <<>>]
    ELSE IF ~AffinesSumEqual(queryimg.affine, MapAffine)
    THEN [outcome |-> "AttributeError", rows |-> <<>>]
    ELSE IF \A i \in Voxels : queryimg.data[i] > 0
    THEN [outcome |-> "AssertionError", rows |-> <<>>]
    ELSE IF \A i \in Voxels : ~(queryimg.data[i] > 0)
    THEN [outcome |-> "return", rows |-> <<>>]
    ELSE CHOOSE res \in
           {IF it.outcome # "StopIteration"
            THEN [outcome |-> it.outcome, rows |-> <<>>]
            ELSE CHOOSE r \in
                   {[outcome |-> "return",
                     rows |-> RowsFrom(m, components, it.yielded,
                                       Cardinality({components[i] : i \in Voxels} \ {0}),
                                       1)] :
                      components \in {Components(queryimg.data)}} : TRUE :
              it \in {fetch_iter(m, NoFragment, "ok", 0, <<>>)}} : TRUE

\* r1 > r2 for two correlations that are not NaN
RhoGreater(r1, r2) ==
    LET S(x) == IF x >= 0 THEN x * x ELSE -(x * x)
    IN  S(r1[1]) * r2[2] > S(r2[1]) * r1[2]

\* the keys of np.lexsort((-result[:, -1], result[:, 0])): structure
\* ascending, then correlation descending, NaN last
Before(a, b) ==
    \/ a.structure < b.structure
    \/ /\ a.structure = b.structure
       /\ a.correlation # NaN
       /\ (b.correlation = NaN \/ RhoGreater(a.correlation, b.correlation))

\* the rows in the order of the index array of np.lexsort (a stable sort):
\* a row comes after the rows that sort before it and after the earlier rows
\* with equal keys
Lexsort(rows) ==
    LET Rank(k) == Cardinality({j \in 1..Len(rows) :
                       \/ Before(rows[j], rows[k])
                       \/ (~Before(rows[k], rows[j]) /\ j < k)}) + 1
    IN  [p \in 1..Len(rows) |-> rows[CHOOSE k \in 1..Len(rows) : Rank(k) = p]]

\* region_lut[volume, label]: the region of the last table entry with that
\* volume and label ("" for a KeyError)
region_lut(m, volume, label) ==
    LET refs == TableOrder(m)
        found == {k \in 1..Len(refs) : /\ Deref(m, refs[k]).volume = volume
                                       /\ Deref(m, refs[k]).label = label}
    IN  IF found = {} THEN ""
        ELSE refs[CHOOSE k \in found : \A j \in found : j <= k][1]

AllColumns ==
    {"Structure", "Volume", "Region", "Value", "Correlation", "IoU",
     "Contains", "Contained"}

\* pd.DataFrame(...).dropna(axis=1, how="all"): the columns kept
KeptColumns(rows) ==
    {"Structure", "Volume", "Region", "Value"}
        \cup (IF \E k \in 1..Len(rows) : rows[k].correlation # NaN
              THEN {"Correlation"} ELSE {})
        \cup (IF \E k \in 1..Len(rows) : rows[k].iou # NaN THEN {"IoU"} ELSE {})
        \cup (IF \E k \in 1..Len(rows) : rows[k].contains # NaN
              THEN {"Contains"} ELSE {})
        \cup (IF \E k \in 1..Len(rows) : rows[k].contained # NaN
              THEN {"Contained"} ELSE {})

Failed(error) == [outcome |-> error, columns |-> {}, rows |-> <<>>, components |-> FALSE]

\* Map.assign from the point where `assignments` is bound: the table
AssignTable(m, assignments, mt) ==
    IF assignments.outcome # "return" THEN Failed(assignments.outcome)
    ELSE IF Len(assignments.rows) = 0
    THEN [outcome |-> "return", columns |-> AllColumns, rows |-> <<>>,
          components |-> FALSE]
    ELSE IF mt = "RuntimeError" THEN Failed("RuntimeError")
    ELSE CHOOSE table \in
           {IF \E k \in 1..Len(rows) : rows[k].region = "" THEN Failed("KeyError")
            ELSE [outcome |-> "return", columns |-> KeptColumns(rows),
                  rows |-> rows, components |-> FALSE] :
              rows \in {[k \in 1..Len(sorted) |->
                           sorted[k] @@
                             [region |->
                                region_lut(m, sorted[k].volume,
                                           IF mt = "CONTINUOUS" THEN NoLabel
                                           ELSE sorted[k].value)]] :
                        sorted \in {Lexsort(assignments.rows)}}} : TRUE

\* Map.assign: the table returned; `components` tells whether a component
\* volume is returned with it.  Both _assign_points and _assign_image read
\* self.affine before anything else
assign(m, item, minsize_voxel, lower_threshold) ==
    CHOOSE table \in
        {AssignTable(m, assignments, mt) :
            assignments \in
              {IF item.type \in {"Point", "PointSet"}
               THEN _assign_points(m, item, lower_threshold, affine)
               ELSE _assign_image(m, item, minsize_voxel, affine) :
                 affine \in {AffineOutcome(m)}},
            mt \in {maptype(m)}} : TRUE

\* the coordinates, sigmas and thresholds asked
PointCoords == {<<-3, 2>>, <<-1, 1>>, <<1, 2>>, <<1, 1>>, <<2 * MaxVoxels - 1, 2>>}

PairCoords == {<<-1, 1>>, <<1, 1>>, <<3, 2>>}

Sigmas == {0, 3}

Thresholds == {0, 1}

\* the affines of the query images: that of the map, one shifted along an
\* axis, one shifted by opposite amounts along two axes
QueryAffines == {MapAffine, <<1, 0, 0>>, <<1, -1, 0>>}

\* minsize_voxel: the default 1 and a minimum of two voxels
MinSizes == {1, 2}

Items ==
    {Point(c, s) : c \in PointCoords, s \in Sigmas}
      \cup {PointSet(<<c1, c2>>, <<s1, s2>>) :
                c1 \in PairCoords, c2 \in PairCoords, s1 \in Sigmas, s2 \in Sigmas}
      \cup {ImageAt(d, t) : d \in [Voxels -> {0, 1}], t \in QueryAffines}

\* the voxels where maparr == label, or maparr > 0 for label None
RegionVoxels(maparr, label) ==
    {i \in Voxels : IF label = NoLabel THEN maparr[i] > 0 ELSE maparr[i] = label}

RECURSIVE SumOf(_)
SumOf(S) == IF S = {} THEN 0 ELSE LET x == CHOOSE y \in S : TRUE IN x + SumOf(S \ {x})

\* np.array(np.where(...)).mean(1): the mean voxel index, NaN without voxels
MeanIndex(S) == Ratio(SumOf({i - 1 : i \in S}), Cardinality(S))

\* Map.compute_centroids from the point where the volumes of the regions
\* are fetched: the centroid of every region, or the exception
CentroidsWith(m, used, fetched, mt) ==
    IF \E n \in used : fetched[n].outcome # "return"
    THEN [outcome |-> fetched[CHOOSE n \in used : fetched[n].outcome # "return"].outcome,
          centroids |-> <<>>]
    ELSE IF \E n \in used : m._indices[n][1].label = NoLabel /\ mt # "CONTINUOUS"
    THEN [outcome |-> IF mt = "RuntimeError" THEN "RuntimeError" ELSE "AssertionError",
          centroids |-> <<>>]
    ELSE [outcome |-> "return",
          centroids |-> [n \in used |->
              MeanIndex(RegionVoxels(m.data[fetched[n].fetched.volume + 1],
                                     m._indices[n][1].label))]]

\* Map.compute_centroids.  mapimg = self.fetch(index.volume) passes the
\* volume number as first positional argument
compute_centroids(m) ==
    IF \E n \in DOMAIN m._indices : Len(m._indices[n]) # 1
    THEN [outcome |-> "AssertionError", centroids |-> <<>>]
    ELSE CHOOSE res \in
           {CentroidsWith(m, used, fetched, mt) :
              used \in {{n \in DOMAIN m._indices : m._indices[n][1].label # 0}},
              fetched \in {[n \in DOMAIN m._indices |->
                              CHOOSE r \in Map_fetch(m, IntRegion(m._indices[n][1].volume),
                                                     NoIndex, NoFragment, "ok") : TRUE]},
              mt \in {maptype(m)}} : TRUE

InitData ==
    /\ map \in DataMaps
    /\ call = Idle

\* map.compress()
Compress ==
    /\ call = Idle
    /\ \E provider \in ProviderOutcomes :
           \E r \in compress(map, provider) :
               call' = [kind |-> "compress", before |-> map, provider |-> provider,
                        outcome |-> r.outcome, result |-> r.result,
                        assigned |-> r.assigned]
    /\ UNCHANGED map

\* compressed.compress(), on the map a compress call has just returned
CompressAgain ==
    /\ call.kind = "compress"
    /\ call.outcome = "return"
    /\ \E r \in compress(call.result, "ok") :
           call' = [kind |-> "recompress", before |-> call.result,
                    outcome |-> r.outcome, result |-> r.result,
                    assigned |-> r.assigned]
    /\ UNCHANGED map

\* map.compute_centroids()
ComputeCentroids ==
    /\ call = Idle
    /\ \E cc \in {compute_centroids(map)} :
           call' = [kind |-> "compute_centroids", before |-> map,
                    outcome |-> cc.outcome, centroids |-> cc.centroids]
    /\ UNCHANGED map

\* the items a caller assigns: any item, or, with the centroids just
\* computed, a point of sigma 0 at the centroid of a region
ItemsNow ==
    IF call = Idle THEN {[item |-> i, region |-> ""] : i \in Items}
    ELSE IF call.kind = "compute_centroids" /\ call.outcome = "return"
    THEN {[item |-> Point(call.centroids[n], 0), region |-> n] :
              n \in {x \in DOMAIN call.centroids : call.centroids[x] # NaN}}
    ELSE {}

\* map.assign(item, minsize_voxel=..., lower_threshold=...)
Assign ==
    /\ \E arg \in ItemsNow :
           \E lower_threshold \in IF arg.region = "" THEN Thresholds ELSE {0},
              minsize_voxel \in IF arg.item.type = "Image" THEN MinSizes ELSE {1} :
               \E r \in {assign(map, arg.item, minsize_voxel, lower_threshold)} :
                   call' = [kind |-> "assign", before |-> map, item |-> arg.item,
                            centroid_of |-> arg.region,
                            minsize_voxel |-> minsize_voxel,
                            lower_threshold |-> lower_threshold, outcome |-> r.outcome,
                            columns |-> r.columns, rows |-> r.rows,
                            components |-> r.components]
    /\ UNCHANGED map

\* the caller is done with the result or the exception
DataDone ==
    /\ call # Idle
    /\ call' = Idle
    /\ UNCHANGED map

NextData ==
    \/ Compress /\ UNCHANGED <<volVars, fetchVars>>
    \/ CompressAgain /\ UNCHANGED <<volVars, fetchVars>>
    \/ Assign /\ UNCHANGED <<volVars, fetchVars>>
    \/ ComputeCentroids /\ UNCHANGED <<volVars, fetchVars>>
    \/ DataDone /\ UNCHANGED <<volVars, fetchVars>>

InitDataSpec == IdleVolume /\ sc = Idle /\ fres = Idle /\ InitData

SpecData == InitDataSpec /\ [][NextData]_vars

(***************************************************************************)
(* Claims about Map.compress.                                              *)
(***************************************************************************)
CompressReturned == call.kind \in {"compress", "recompress"} /\ call.outcome = "return"

\* C14: whenever compress returns, the labels it assigned are 1..k in order
\* of processing, each belongs to exactly one entry of the new table, all
\* entries of the new table are in volume 0, every voxel of the new volume
\* is 0 or in 1..k, and the original map is unchanged
C14_CompressLabelsSequential ==
    CompressReturned =>
        LET k == Len(call.assigned)
            new == call.result
        IN  /\ call.assigned = [i \in 1..k |-> i]
            /\ \A l \in 1..k :
                   Cardinality({r \in Refs(new) : Deref(new, r).label = l}) = 1
            /\ \A r \in Refs(new) :
                   Deref(new, r).volume = 0 /\ Deref(new, r).label \in 1..k
            /\ \A d \in 1..Len(new.data) : \A i \in Voxels : new.data[d][i] \in 0..k
            /\ call.kind = "compress" => map = call.before

\* compress of a labelled volume holding both labels has returned
C14_Witness ==
    /\ call.kind = "compress"
    /\ call.outcome = "return"
    /\ Len(call.assigned) = 2
    /\ \E i, j \in Voxels : call.result.data[1][i] = 1 /\ call.result.data[1][j] = 2

\* the voxels of volume 0 of m that carry the label l
VoxelsOf(m, l) == {i \in Voxels : m.data[1][i] = l}

\* compress(M) equals M up to relabeling
SameUpToRelabeling(M, M2) ==
    /\ Len(M2.data) = 1
    /\ \A i, j \in Voxels :
           (M2.data[1][i] = M2.data[1][j]) <=> (M.data[1][i] = M.data[1][j])
    /\ \A i \in Voxels : M.data[1][i] = 0 => M2.data[1][i] = 0
    /\ \A r \in Refs(M) :
           \E r2 \in Refs(M2) :
               /\ r2[1] = r[1]
               /\ VoxelsOf(M2, Deref(M2, r2).label) = VoxelsOf(M, Deref(M, r).label)

Recompressed ==
    /\ call.kind = "recompress"
    /\ call.outcome = "return"
    /\ Len(call.before.volumes) = 1

\* C15 as stated: for a single-volume map M that is the output of compress,
\* compress(M) equals M up to relabeling: two voxels carry the same label in
\* compress(M) exactly when they do in M, zero voxels stay zero, and each
\* region has a label covering the same voxels as in M
C15_CompressIdempotent ==
    Recompressed => SameUpToRelabeling(call.before, call.result)

\* every label of the table of m is carried by some voxel
EveryLabelOccurs(m) ==
    \A r \in Refs(m) : VoxelsOf(m, Deref(m, r).label) # {}

\* C15 amended: the same, for an output M of compress in which every label
\* of the table is carried by at least one voxel
C15_CompressIdempotentOnOccurringLabels ==
    (Recompressed /\ EveryLabelOccurs(call.before)) =>
        SameUpToRelabeling(call.before, call.result)

\* compress of a compressed map with two labels, both carried by voxels
C15_Witness ==
    /\ Recompressed
    /\ EveryLabelOccurs(call.before)
    /\ Cardinality(Refs(call.before)) = 2
    /\ call.result.data[1] # call.before.data[1]

(***************************************************************************)
(* Claims about Map.assign.                                                *)
(***************************************************************************)
IsAssign == call.kind = "assign"

IsPoints == IsAssign /\ call.item.type \in {"Point", "PointSet"}

\* the nearest integer to the coordinate c (halves upwards)
Nearest(c) == Floor(2 * c[1] + c[2], 2 * c[2])

\* the value of volume v (from 1) of m at the voxel nearest to c is above
\* the threshold
ValueAbove(m, v, c, lower_threshold) ==
    /\ Nearest(c) \in 0..(MaxVoxels - 1)
    /\ m.data[v][Nearest(c) + 1] > lower_threshold

RowsOf(p, v) ==
    {k \in 1..Len(call.rows) :
         call.rows[k].structure = p - 1 /\ call.rows[k].volume = v - 1}

VoxelPrecise ==
    /\ IsPoints
    /\ has_constant_sigma(call.item)
    /\ call.item.sigma[1] < 3

\* C16: for points that share one sigma below 3 voxels, assign returns
\* exactly one record for each pair (point, volume) whose value at the
\* voxel nearest to the point is above lower_threshold, no record for any
\* other pair, and leaves correlation, IoU, contains and contained undefined
C16_VoxelPreciseRecords ==
    VoxelPrecise =>
        /\ call.outcome = "return"
        /\ \A p \in 1..Len(call.item.coords) :
               \A v \in 1..Len(call.before.volumes) :
                   Cardinality(RowsOf(p, v)) =
                       IF ValueAbove(call.before, v, call.item.coords[p],
                                     call.lower_threshold)
                       THEN 1 ELSE 0
        /\ \A k \in 1..Len(call.rows) :
               /\ call.rows[k].correlation = NaN
               /\ call.rows[k].iou = NaN
               /\ call.rows[k].contains = NaN
               /\ call.rows[k].contained = NaN

\* the voxels the Gaussian kernel of a point at c covers
KernelVoxels(c) ==
    {i \in Voxels : (i - 1) - VoxelIndex(c) \in (-KernelRadius)..KernelRadius}

\* the voxels of the table entry r of m
EntryVoxels(m, r) ==
    IF Deref(m, r).volume + 1 > Len(m.data) THEN {}
    ELSE RegionVoxels(m.data[Deref(m, r).volume + 1], Deref(m, r).label)

\* C17: for every point with sigma >= 3 voxels, alone or in a point set of
\* constant or varying sigma, assign returns the records of the kernel image
\* scored through the image path, with the index of the point as structure;
\* there is such a record whenever the kernel overlaps a mapped region
C17_UncertainPointsScored ==
    IsPoints =>
        \A p \in 1..Len(call.item.coords) :
            (/\ call.item.sigma[p] >= 3
             /\ \E r \in Refs(call.before) :
                    EntryVoxels(call.before, r) \cap KernelVoxels(call.item.coords[p]) # {})
            => /\ call.outcome = "return"
               /\ \E k \in 1..Len(call.rows) :
                      /\ call.rows[k].structure = p - 1
                      /\ call.rows[k].iou # NaN

\* C18: for an image query assign returns the table together with a
\* component volume; for a Point or PointSet it returns no component volume
C18_ComponentsForImages ==
    (IsAssign /\ call.outcome = "return") =>
        (call.components <=> call.item.type = "Image")

\* the query image, on the grid of the map, is the mask of the labelled
\* table entry r
IsMaskOf(m, item, r) ==
    /\ item.type = "Image"
    /\ item.affine = MapAffine
    /\ Deref(m, r).label # NoLabel
    /\ EntryVoxels(m, r) # {}
    /\ {i \in Voxels : item.data[i] > 0} = EntryVoxels(m, r)

\* C19: for an image query equal to the mask of one labelled region of the
\* map, connected or not, assign returns for that region a record with iou = 1,
\* contains = 1 and contained = 1
C19_OwnMaskScoresOne ==
    IsAssign =>
        \A r \in Refs(call.before) :
            IsMaskOf(call.before, call.item, r) =>
                /\ call.outcome = "return"
                /\ \E k \in 1..Len(call.rows) :
                       /\ call.rows[k].region = r[1]
                       /\ call.rows[k].iou # NaN
                       /\ call.rows[k].iou[1] = call.rows[k].iou[2]
                       /\ call.rows[k].contains[1] = call.rows[k].contains[2]
                       /\ call.rows[k].contained[1] = call.rows[k].contained[2]

\* every region of m is mapped to one index
OneIndexEach(m) == \A n \in DOMAIN m._indices : Len(m._indices[n]) = 1

\* C20: on a labelled map whose regions have one index each,
\* compute_centroids returns, and a point with sigma 0 at the centroid of a
\* region is assigned to that region with a value > 0 and to no other
\* region, whatever the shape of the region
C20_CentroidAssignsOwnRegion ==
    /\ (call.kind = "compute_centroids" /\ maptype(call.before) = "LABELLED"
           /\ OneIndexEach(call.before))
           => call.outcome = "return"
    /\ (IsAssign /\ call.centroid_of # "" /\ maptype(call.before) = "LABELLED") =>
           /\ call.outcome = "return"
           /\ \E k \in 1..Len(call.rows) :
                  call.rows[k].region = call.centroid_of /\ call.rows[k].value > 0
           /\ \A k \in 1..Len(call.rows) : call.rows[k].region = call.centroid_of

\* the rows k < l of the returned table are in order: structure ascending
\* and, within one structure, correlation not ascending (undefined last)
RowsInOrder(rows) ==
    \A k, l \in 1..Len(rows) :
        k < l => /\ rows[k].structure <= rows[l].structure
                 /\ rows[k].structure = rows[l].structure => ~Before(rows[l], rows[k])

\* C21: the table assign returns is ordered by structure ascending and,
\* within one structure, by score descending, and holds at most one row for
\* each pair (structure, region), also when a region is mapped to several
\* indices of the table
C21_TableSortedOneRowPerRegion ==
    (IsAssign /\ call.outcome = "return") =>
        /\ RowsInOrder(call.rows)
        /\ \A k, l \in 1..Len(call.rows) :
               (/\ call.rows[k].structure = call.rows[l].structure
                /\ call.rows[k].region = call.rows[l].region) => k = l

\* the voxels of component number `mode` of the query image d
ComponentVoxels(d, mode) == {i \in Voxels : Components(d)[i] = mode}

\* C22: with an image query, a connected component of the query that has
\* fewer than minsize_voxel voxels produces no assignment record
C22_SmallComponentsIgnored ==
    (IsAssign /\ call.item.type = "Image" /\ call.outcome = "return") =>
        \A k \in 1..Len(call.rows) :
            Cardinality(ComponentVoxels(call.item.data, call.rows[k].structure))
                >= call.minsize_voxel

(***************************************************************************)
(* NeuroglancerVolume: the lazy bootstrap under every access, failures of  *)
(* _bootstrap included.  An entry of info["scales"] may lack the key       *)
(* "voxel_offset", which NeuroglancerScale.__init__ reads without default. *)
(***************************************************************************)
MaxBootstraps == 3

BootInfos ==
    [res : {<<1, 1, 1>>, <<2, 2, 2>>}, size : {<<1, 1, 1>>},
     has_voxel_offset : BOOLEAN]

BootInfoLists == UNION {[1..n -> BootInfos] : n \in 1..MaxScales}

\* what get_accessor_for_url / get_IO_for_existing_dataset do
StoreOutcomes == {"ok", "ConnectionError"}

\* the volume left alone by an access that needs no bootstrap
NoBootstrap(io0, cached0) ==
    [outcome |-> "return", io |-> io0, scales_cached |-> cached0, ran |-> FALSE]

\* NeuroglancerVolume._bootstrap: self._io is assigned first, then the
\* scale objects are built and sorted and self._scales_cached is assigned;
\* `ran` tells that the info was read from the store
_bootstrap(inf, store, io0, cached0) ==
    IF store # "ok"
    THEN [outcome |-> store, io |-> io0, scales_cached |-> cached0, ran |-> FALSE]
    ELSE IF \E i \in 1..Len(inf) : ~inf[i].has_voxel_offset
    THEN [outcome |-> "KeyError", io |-> TRUE, scales_cached |-> cached0, ran |-> TRUE]
    ELSE [outcome |-> "return", io |-> TRUE,
          scales_cached |-> [set |-> TRUE, list |-> BootstrapScales(inf)],
          ran |-> TRUE]

\* property scales: bootstraps when _scales_cached is None
scales(inf, store, io0, cached0) ==
    IF cached0.set THEN NoBootstrap(io0, cached0)
    ELSE _bootstrap(inf, store, io0, cached0)

\* properties dtype and map_type: bootstrap when _io is None
dtype(inf, store, io0, cached0) ==
    IF io0 THEN NoBootstrap(io0, cached0)
    ELSE _bootstrap(inf, store, io0, cached0)

\* get_shape and fetch: _select_scale reads self.scales first and
\* self.dtype, through _estimate_nbytes, afterwards
SelectWithBootstrap(inf, store, io0, cached0, resolution, isz, budget) ==
    CHOOSE res \in
        {IF r.outcome # "return" THEN r
         ELSE [r EXCEPT !.outcome =
                   _select_scale(r.scales_cached.list, resolution, NoBox, isz,
                                 budget).outcome] :
            r \in {scales(inf, store, io0, cached0)}} : TRUE

InitBoot ==
    /\ info \in BootInfoLists
    /\ itemsize = 1
    /\ maxBytes = 1
    /\ io = FALSE
    /\ scales_cached = Unset
    /\ sel = Idle
    /\ bootstraps = 0

\* one access of the volume: the state it found, how it ended, and the
\* state it leaves
Access(what, r) ==
    /\ r.ran => bootstraps < MaxBootstraps
    /\ io' = r.io
    /\ scales_cached' = r.scales_cached
    /\ bootstraps' = IF r.ran THEN bootstraps + 1 ELSE bootstraps
    /\ sel' = [kind |-> "access", what |-> what, outcome |-> r.outcome,
               ran |-> r.ran,
               before |-> [io |-> io, scales_cached |-> scales_cached]]
    /\ UNCHANGED <<info, itemsize, maxBytes>>

\* volume.scales
ReadScales ==
    \E store \in StoreOutcomes :
        Access("scales", scales(info, store, io, scales_cached))

\* volume.dtype
ReadDtype ==
    \E store \in StoreOutcomes :
        Access("dtype", dtype(info, store, io, scales_cached))

\* volume.map_type
ReadMapType ==
    \E store \in StoreOutcomes :
        Access("map_type", dtype(info, store, io, scales_cached))

\* volume.get_shape(resolution_mm)
GetShape ==
    \E store \in StoreOutcomes, resolution \in {NoResolution, Resolution(1)} :
        \E r \in {SelectWithBootstrap(info, store, io, scales_cached, resolution,
                                      itemsize, maxBytes)} :
            Access("get_shape", r)

\* volume.fetch(resolution_mm): the scale is selected, then fetched from
VolumeFetch ==
    \E store \in StoreOutcomes, resolution \in {NoResolution, Resolution(1)} :
        \E r \in {SelectWithBootstrap(info, store, io, scales_cached, resolution,
                                      itemsize, maxBytes)} :
            Access("fetch", r)

NextBoot ==
    \/ ReadScales /\ UNCHANGED <<fetchVars, mapVars>>
    \/ ReadDtype /\ UNCHANGED <<fetchVars, mapVars>>
    \/ ReadMapType /\ UNCHANGED <<fetchVars, mapVars>>
    \/ GetShape /\ UNCHANGED <<fetchVars, mapVars>>
    \/ VolumeFetch /\ UNCHANGED <<fetchVars, mapVars>>

InitBootSpec == InitBoot /\ sc = Idle /\ fres = Idle /\ map = Idle /\ call = Idle

SpecBoot == InitBootSpec /\ [][NextBoot]_vars

IsAccess == sel.kind = "access"

\* C27: over any sequence of accesses to scales, dtype, map_type, get_shape
\* and fetch, _bootstrap runs at most once, namely in an access that found
\* neither the IO handle nor the scale list set; an access that found them
\* set leaves them as they are, and at every moment the IO handle is set
\* exactly when the scale list is set
C27_BootstrapOnce ==
    /\ io <=> scales_cached.set
    /\ bootstraps <= 1
    /\ IsAccess =>
           /\ sel.ran => (~sel.before.io /\ ~sel.before.scales_cached.set)
           /\ (sel.before.io \/ sel.before.scales_cached.set) =>
                  /\ sel.outcome = "return"
                  /\ io = sel.before.io
                  /\ scales_cached = sel.before.scales_cached

(***************************************************************************)
(* Claims about Map.__init__.                                              *)
(***************************************************************************)
\* the entries of an index specification: (position of the region,
\* position in its index list)
SpecEntries(spec) ==
    UNION {{<<r, i>> : i \in 1..Len(spec.indices[r][2])} : r \in 1..Len(spec.indices)}

\* the (volume, z) pair an entry of the specification names
PairOf(spec, e) ==
    <<spec.indices[e[1]][2][e[2]].volume, spec.indices[e[1]][2][e[2]].z>>

\* the MapIndex the constructor stored for an entry of the specification
StoredFor(m, spec, e) == m._indices[clear_name(spec.indices[e[1]][1])][e[2]]

\* C28: after construction the map has as many volumes as the index
\* specification names distinct (volume, z) pairs; two entries have the same
\* remapped volume number exactly when they name the same pair, and every
\* MapIndex.volume is the position in map.volumes of what was materialized
\* for the pair of its entry
C28_VolumesDeduplicated ==
    \A spec \in MapSpecs :
        map = Map__init__(spec) =>
            /\ Len(map.volumes)
                   = Cardinality({PairOf(spec, e) : e \in SpecEntries(spec)})
            /\ \A e, f \in SpecEntries(spec) :
                   StoredFor(map, spec, e).volume = StoredFor(map, spec, f).volume
                       <=> PairOf(spec, e) = PairOf(spec, f)
            /\ \A e \in SpecEntries(spec) :
                   /\ StoredFor(map, spec, e).volume \in 0..(Len(map.volumes) - 1)
                   /\ map.volumes[StoredFor(map, spec, e).volume + 1] = PairOf(spec, e)

\* a constructed map with fewer volumes than index entries, one of them a
\* z-slice named by two entries that are not next to each other
C28_Witness ==
    /\ map # Idle
    /\ Len(map.volumes) = 3
    /\ Cardinality(Refs(map)) = 4
    /\ \E r, q \in Refs(map) :
           /\ r[1] # q[1]
           /\ Deref(map, r).volume = Deref(map, q).volume
           /\ map.volumes[Deref(map, r).volume + 1][2] # NoZ

\* the regions of m whose index list holds MapIndex(volume, label)
RegionsMapping(m, label, volume) ==
    {r[1] : r \in {q \in Refs(m) :
                       Deref(m, q) = MapIndex(volume, label, NoFragment)}}

\* C29: in every constructed map no MapIndex appears twice in the region
\* index table, neither under two regions nor twice under one, and
\* get_region never fails with the "is not unique" RuntimeError: it returns
\* the one region mapped by the index, or None when no region is
C29_IndicesUnique ==
    /\ map # Idle =>
           \A r, q \in Refs(map) : r # q => Deref(map, r) # Deref(map, q)
    /\ call.kind = "get_region" =>
           /\ call.outcome # "RuntimeError"
           /\ call.outcome = "return" =>
                  RegionsMapping(call.before, call.label, call.volume) = {call.name}
           /\ call.outcome = "None" =>
                  RegionsMapping(call.before, call.label, call.volume) = {}

\* an image query on a map whose affine can be read
IsImageQuery ==
    /\ IsAssign
    /\ call.item.type = "Image"
    /\ AffineOutcome(call.before) = "return"

\* the call went on with the query image as it was given: it did not end
\* in the resampling branch
UsedUnchanged == call.outcome # "AttributeError"

\* C30: in the image path of assign the query image is used unchanged only
\* when its affine equals the affine of the map entry by entry; when the
\* affines differ in some entry it is resampled onto the grid of the map and
\* the call returns
C30_ResampledWhenAffinesDiffer ==
    IsImageQuery =>
        /\ UsedUnchanged => call.item.affine = MapAffine
        /\ call.item.affine # MapAffine => call.outcome = "return"

Init ==
    /\ InitVolume
    /\ sc = Idle
    /\ fres = Idle
    /\ map = Idle
    /\ call = Idle

Next == NextVolume

Spec == Init /\ [][Next]_vars

=============================================================================
